---- MODULE Spec2Model ----
(***************************************************************************)
(* A model of gps_time/converter.py: the conversions between civil         *)
(* date-times, Modified Julian Dates and GPS week / time-of-week.          *)
(*                                                                         *)
(* The program computes with IEEE-754 doubles.  A double is modelled as    *)
(* the dyadic rational it denotes, sign * m * 2^e with m a natural number  *)
(* of any size, and every arithmetic operation of the source is the exact  *)
(* operation followed by rounding to 53 significant bits, ties to even.    *)
(***************************************************************************)
EXTENDS Integers, Sequences, FiniteSets, TLC

(***************************************************************************)
(* Natural numbers of any size: little-endian sequences of limbs, each in  *)
(* 0 .. Base-1, with no zero limb at the high end (zero is << >>).         *)
(***************************************************************************)
Base == 2^15

Pow2(n) == 2^n

RECURSIVE NatNorm(_)
NatNorm(s) ==
    IF s = << >> THEN s
    ELSE IF s[Len(s)] = 0 THEN NatNorm(SubSeq(s, 1, Len(s) - 1))
    ELSE s

RECURSIVE NatOfInt(_)
NatOfInt(n) ==
    IF n = 0 THEN << >> ELSE <<n % Base>> \o NatOfInt(n \div Base)

RECURSIVE IntOfNat(_)
IntOfNat(s) ==
    IF s = << >> THEN 0 ELSE s[1] + Base * IntOfNat(Tail(s))

RECURSIVE NatAddC(_, _, _)
NatAddC(a, b, c) ==
    IF a = << >> /\ b = << >> THEN (IF c = 0 THEN << >> ELSE <<c>>)
    ELSE LET x == IF a = << >> THEN 0 ELSE a[1]
             y == IF b = << >> THEN 0 ELSE b[1]
             t == x + y + c
         IN  <<t % Base>> \o NatAddC(IF a = << >> THEN a ELSE Tail(a),
                                     IF b = << >> THEN b ELSE Tail(b),
                                     t \div Base)

NatAdd(a, b) == NatAddC(a, b, 0)

\* a - b - c for a >= b + c, limb by limb with borrow c
RECURSIVE NatSubB(_, _, _)
NatSubB(a, b, c) ==
    IF a = << >> THEN << >>
    ELSE LET y == IF b = << >> THEN 0 ELSE b[1]
             t == a[1] - y - c
         IN  <<IF t < 0 THEN t + Base ELSE t>>
               \o NatSubB(Tail(a), IF b = << >> THEN b ELSE Tail(b),
                          IF t < 0 THEN 1 ELSE 0)

NatSub(a, b) == NatNorm(NatSubB(a, b, 0))

RECURSIVE NatCmpAt(_, _, _)
NatCmpAt(a, b, i) ==
    IF i = 0 THEN 0
    ELSE IF a[i] > b[i] THEN 1
    ELSE IF a[i] < b[i] THEN -1
    ELSE NatCmpAt(a, b, i - 1)

\* -1, 0 or 1 as a < b, a = b, a > b
NatCmp(a, b) ==
    IF Len(a) > Len(b) THEN 1
    ELSE IF Len(a) < Len(b) THEN -1
    ELSE NatCmpAt(a, b, Len(a))

\* a * k + c for 0 <= k < 2^16
RECURSIVE NatMulSmall(_, _, _)
NatMulSmall(a, k, c) ==
    IF a = << >> THEN NatOfInt(c)
    ELSE LET t == a[1] * k + c
         IN  <<t % Base>> \o NatMulSmall(Tail(a), k, t \div Base)

\* quotient (not normalised) and remainder of a by d, 0 < d < 2^16
RECURSIVE NatDivRemRec(_, _)
NatDivRemRec(a, d) ==
    IF a = << >> THEN [q |-> << >>, r |-> 0]
    ELSE LET hi == NatDivRemRec(Tail(a), d)
             t  == hi.r * Base + a[1]
         IN  [q |-> <<t \div d>> \o hi.q, r |-> t % d]

NatDivRem(a, d) ==
    LET dr == NatDivRemRec(a, d) IN [q |-> NatNorm(dr.q), r |-> dr.r]

RECURSIVE SmallBitLen(_)
SmallBitLen(n) == IF n = 0 THEN 0 ELSE 1 + SmallBitLen(n \div 2)

NatBitLen(a) ==
    IF a = << >> THEN 0 ELSE 15 * (Len(a) - 1) + SmallBitLen(a[Len(a)])

Zeros(k) == [i \in 1..k |-> 0]

\* a * 2^s
NatShl(a, s) ==
    IF a = << >> THEN a
    ELSE Zeros(s \div 15) \o NatMulSmall(a, Pow2(s % 15), 0)

\* quotient and remainder (both naturals) of a by 2^s
NatShr(a, s) ==
    LET k    == s \div 15
        low  == SubSeq(a, 1, IF k < Len(a) THEN k ELSE Len(a))
        rest == SubSeq(a, k + 1, Len(a))
        dr   == NatDivRemRec(rest, Pow2(s % 15))
    IN  [q |-> NatNorm(dr.q),
         r |-> NatNorm(low \o Zeros(k - Len(low)) \o <<dr.r>>)]

NatIsOdd(a) == a # << >> /\ a[1] % 2 = 1

RECURSIVE SmallTrailingZeros(_)
SmallTrailingZeros(n) ==
    IF n % 2 = 1 THEN 0 ELSE 1 + SmallTrailingZeros(n \div 2)

\* the number of trailing zero bits of a > 0
RECURSIVE NatTrailingZeros(_)
NatTrailingZeros(a) ==
    IF a[1] = 0 THEN 15 + NatTrailingZeros(Tail(a))
    ELSE SmallTrailingZeros(a[1])

(***************************************************************************)
(* Dyadic rationals [neg, m, e] = (-1)^neg * m * 2^e in canonical form:    *)
(* m odd, or m = 0 with e = 0 and neg = FALSE.  Equal values are equal     *)
(* records.  Every double is such a number; Fl rounds one to a double.     *)
(***************************************************************************)
DyZero == [neg |-> FALSE, m |-> << >>, e |-> 0]

DyNorm(neg, m, e) ==
    IF m = << >> THEN DyZero
    ELSE LET tz == NatTrailingZeros(m)
         IN  [neg |-> neg, m |-> NatShr(m, tz).q, e |-> e + tz]

DyOfInt(n) == DyNorm(n < 0, NatOfInt(IF n < 0 THEN -n ELSE n), 0)

DyNeg(x) == IF x.m = << >> THEN x ELSE [x EXCEPT !.neg = ~x.neg]

\* exact sum
DyAdd(x, y) ==
    LET e  == IF x.e < y.e THEN x.e ELSE y.e
        mx == NatShl(x.m, x.e - e)
        my == NatShl(y.m, y.e - e)
        c  == NatCmp(mx, my)
    IN  IF x.neg = y.neg THEN DyNorm(x.neg, NatAdd(mx, my), e)
        ELSE IF c = 0 THEN DyZero
        ELSE IF c > 0 THEN DyNorm(x.neg, NatSub(mx, my), e)
        ELSE DyNorm(y.neg, NatSub(my, mx), e)

DySub(x, y) == DyAdd(x, DyNeg(y))

DyLt(x, y) == DySub(x, y).neg
DyLe(x, y) == ~DyLt(y, x)

\* x * 2^s, exact
DyScale(x, s) == IF x.m = << >> THEN x ELSE [x EXCEPT !.e = x.e + s]

\* n = OddPart(n) * 2^TwoPart(n) for an integer n > 0
TwoPart(n) == SmallTrailingZeros(n)
OddPart(n) == n \div Pow2(TwoPart(n))

\* exact product with an integer n whose odd part is below 2^16
DyMulInt(x, n) ==
    IF n = 0 \/ x.m = << >> THEN DyZero
    ELSE LET a == IF n < 0 THEN -n ELSE n
         IN  DyNorm(x.neg # (n < 0), NatMulSmall(x.m, OddPart(a), 0),
                    x.e + TwoPart(a))

\* floor(x) and the truncation of x toward zero, as integers
DyFloor(x) ==
    IF x.e >= 0
    THEN (IF x.neg THEN -1 ELSE 1) * IntOfNat(NatShl(x.m, x.e))
    ELSE LET q == IntOfNat(NatShr(x.m, -x.e).q)
         IN  IF x.neg THEN -(q + 1) ELSE q

DyTrunc(x) ==
    IF x.e >= 0
    THEN (IF x.neg THEN -1 ELSE 1) * IntOfNat(NatShl(x.m, x.e))
    ELSE LET q == IntOfNat(NatShr(x.m, -x.e).q)
         IN  IF x.neg THEN -q ELSE q

(***************************************************************************)
(* IEEE-754 double arithmetic (round to nearest, ties to even).  The       *)
(* magnitudes of this program stay far from overflow and underflow.        *)
(***************************************************************************)
Fl(x) ==
    LET bl == NatBitLen(x.m) IN
    IF bl <= 53 THEN x
    ELSE LET q    == bl - 53
             sh   == NatShr(x.m, q)
             half == NatShl(<<1>>, q - 1)
             c    == NatCmp(sh.r, half)
             up   == c > 0 \/ (c = 0 /\ NatIsOdd(sh.q))
         IN  DyNorm(x.neg, IF up THEN NatAdd(sh.q, <<1>>) ELSE sh.q, x.e + q)

FAdd(x, y) == Fl(DyAdd(x, y))
FSub(x, y) == Fl(DySub(x, y))
FMulInt(x, n) == Fl(DyMulInt(x, n))

\* the double x / n for an integer n > 0 whose odd part is below 2^16: the
\* quotient to at least 57 bits, a sticky bit for the remainder, then Fl
FDivInt(x, n) ==
    IF x.m = << >> THEN x
    ELSE LET d   == OddPart(n)
             bl  == NatBitLen(x.m)
             s   == IF bl >= 75 THEN 0 ELSE 75 - bl
             dr  == NatDivRem(NatShl(x.m, s), d)
             ext == NatMulSmall(dr.q, 2, IF dr.r = 0 THEN 0 ELSE 1)
         IN  Fl(DyNorm(x.neg, ext, x.e - s - 1 - TwoPart(n)))

\* Python's x // n and x % n on a double x and an integer n > 0: the floor of
\* the exact quotient, and x - n * floor(x / n) rounded (exact when x >= 0)
FFloorDiv(x, n) == DyFloor(x) \div n
FMod(x, n) == Fl(DySub(x, DyOfInt(n * FFloorDiv(x, n))))

\* Python's int(a / b) for integers a and b > 0 whose quotient is either an
\* integer or further from one than the rounding of the division can reach
TruncDiv(a, b) == IF a >= 0 THEN a \div b ELSE -((-a) \div b)

(***************************************************************************)
(* gps_time/converter.py.  A civil date-time is a record of year, month,   *)
(* day, hour and minute (integers) and second (a double); a call returns   *)
(* its value, or ValueError when it raises.                                 *)
(***************************************************************************)
GPS_EPOCH_MJD == 44244
SECONDS_PER_WEEK == 604800
SECONDS_PER_DAY == 86400

Civil(y, mo, d, h, mi, s) ==
    [year |-> y, month |-> mo, day |-> d, hour |-> h, minute |-> mi, second |-> s]

\* what a call yields: Raise when it raises ValueError, Return(v) otherwise
Raise == << >>
Return(v) == <<v>>
Raised(r) == r = << >>
ValueOf(r) == r[1]

_is_leap_year(year) ==
    (year % 4 = 0 /\ year % 100 # 0) \/ (year % 400 = 0)

\* _days_in_month with a February of 28 days in every year
_days_in_month_february_28(year, month) ==
    IF month \in {1, 3, 5, 7, 8, 10, 12} THEN 31
    ELSE IF month \in {4, 6, 9, 11} THEN 30
    ELSE IF month = 2 THEN 28
    ELSE 30

\* _days_in_month that gives February 29 days in every year
_days_in_month_february_29(year, month) ==
    IF month \in {1, 3, 5, 7, 8, 10, 12} THEN 31
    ELSE IF month \in {4, 6, 9, 11} THEN 30
    ELSE IF month = 2 THEN 29
    ELSE 30

_days_in_month(year, month) ==
    IF month \in {1, 3, 5, 7, 8, 10, 12} THEN 31
    ELSE IF month \in {4, 6, 9, 11} THEN 30
    ELSE IF month = 2 THEN (IF _is_leap_year(year) THEN 29 ELSE 28)
    ELSE 30

\* TRUE when _validate_ymd_datetime returns, FALSE when it raises ValueError
_validate_ymd_datetime(year, month, day, hour, minute, second) ==
    /\ 1 <= month /\ month <= 12
    /\ 0 <= hour /\ hour <= 23
    /\ 0 <= minute /\ minute <= 59
    /\ DyLe(DyZero, second) /\ DyLt(second, DyOfInt(60))
    /\ 1 <= day /\ day <= _days_in_month(year, month)

\* a of ymd_to_mjd: year_frac = 365.25 * y is exact in a double, here held as
\* the integer 4 * year_frac = 1461 * y; frac == 0.5 reads "the rest is 2/4"
YearDays(y) ==
    LET year_frac4 == 1461 * y
        int_part   == TruncDiv(year_frac4, 4)
    IN  IF year_frac4 - 4 * int_part = 2
        THEN TruncDiv(year_frac4 + 2, 4)
        ELSE int_part

\* int(30.6001 * n): the product is never within 0.0001 of an integer
MonthDays(n) == TruncDiv(306001 * n, 10000)

ymd_to_mjd(year, month, day, hour, minute, second) ==
    IF ~_validate_ymd_datetime(year, month, day, hour, minute, second)
    THEN Raise
    ELSE LET day_frac ==
                 FAdd(FAdd(FAdd(DyOfInt(day), FDivInt(DyOfInt(hour), 24)),
                           FDivInt(DyOfInt(minute), 1440)),
                      FDivInt(second, 86400))
             y == IF month <= 2 THEN year - 1 ELSE year
             m == IF month <= 2 THEN month + 12 ELSE month
             a == YearDays(y)
             b == MonthDays(m + 1)
         IN  Return(FSub(FAdd(DyOfInt(a + b), day_frac), DyOfInt(679019)))

\* the split of a day fraction's seconds into hour, minute, second
SplitSeconds(total_seconds) ==
    LET remaining == FMod(total_seconds, 3600)
    IN  [hour   |-> FFloorDiv(total_seconds, 3600),
         minute |-> FFloorDiv(remaining, 60),
         second |-> FMod(remaining, 60)]

\* GregorianCorrection without the quadricentennial term int(a / 4)
GregorianCorrectionNoQuarter(j) ==
    LET a == TruncDiv(4 * j - 7468865, 146097)
    IN  IF j >= 2299161 THEN j + 1 + a ELSE j

\* the Gregorian calendar correction of the Julian day number j
GregorianCorrection(j) ==
    LET a == TruncDiv(4 * j - 7468865, 146097)
    IN  IF j >= 2299161 THEN j + 1 + a - TruncDiv(a, 4) ELSE j

\* the one element of S.  The({F(a) : a \in {x}}) is F(x) with the argument
\* evaluated first, once, as Python evaluates the arguments of a call
The(S) == CHOOSE r \in S : TRUE

\* each value is computed once and then named, as the assignments of the
\* code do: jh is jd + 0.5, j0 is int(jd + 0.5), j the corrected day number
mjd_to_ymd(mjd) ==
    The({The({The({LET b   == j + 1524
                       c   == TruncDiv(20 * b - 2442, 7305)
                       d   == TruncDiv(1461 * c, 4)
                       e   == TruncDiv((b - d) * 10000, 306001)
                       day == b - d - MonthDays(e)
                       month == IF e < 14 THEN e - 1 ELSE e - 13
                       year  == IF month > 2 THEN c - 4716 ELSE c - 4715
                   IN  Civil(year, month, day, t.hour, t.minute, t.second) :
                     j \in {GregorianCorrection(j0)},
                     t \in {SplitSeconds(total_seconds) :
                              total_seconds \in
                                  {FMulInt(f, 86400) :
                                     f \in {FSub(jh, DyOfInt(j0))}}}}) :
               j0 \in {DyTrunc(jh)}}) :
          jh \in {FAdd(jd, DyScale(DyOfInt(1), -1)) :
                    jd \in {FAdd(mjd, DyScale(DyOfInt(4800001), -1))}}})

GpsTime(week, tow, dow) == [week |-> week, tow |-> tow, dow |-> dow]

\* CarryWeek that wraps tow and forgets to count the week
CarryWeekNoIncrement(week, tow) ==
    IF DyLe(DyOfInt(SECONDS_PER_WEEK), tow)
    THEN [week |-> week, tow |-> FSub(tow, DyOfInt(SECONDS_PER_WEEK))]
    ELSE [week |-> week, tow |-> tow]

\* the carry into the next week when the leap seconds push tow past its end
CarryWeek(week, tow) ==
    IF DyLe(DyOfInt(SECONDS_PER_WEEK), tow)
    THEN [week |-> week + 1, tow |-> FSub(tow, DyOfInt(SECONDS_PER_WEEK))]
    ELSE [week |-> week, tow |-> tow]

utc_to_gps_datetime(year, month, day, hour, minute, second, leap_seconds) ==
    LET r == ymd_to_mjd(year, month, day, hour, minute, second) IN
    IF Raised(r) THEN Raise
    ELSE The({LET week == FFloorDiv(diff_days, 7)
                  tow  == FAdd(FMulInt(FSub(diff_days, DyOfInt(week * 7)),
                                       SECONDS_PER_DAY),
                               DyOfInt(leap_seconds))
              IN  The({Return(GpsTime(wt.week, wt.tow,
                                      FFloorDiv(wt.tow, SECONDS_PER_DAY))) :
                         wt \in {CarryWeek(w, t) : w \in {week}, t \in {tow}}})
              : diff_days \in {FSub(ValueOf(r), DyOfInt(GPS_EPOCH_MJD))}})

\* BorrowWeek that wraps utc_tow and forgets to give the week back
BorrowWeekNoDecrement(week, utc_tow) ==
    IF DyLt(utc_tow, DyZero)
    THEN [week |-> week, tow |-> FAdd(utc_tow, DyOfInt(604800))]
    ELSE [week |-> week, tow |-> utc_tow]

\* the borrow from the previous week when tow - leap_seconds is negative
BorrowWeek(week, utc_tow) ==
    IF DyLt(utc_tow, DyZero)
    THEN [week |-> week - 1, tow |-> FAdd(utc_tow, DyOfInt(604800))]
    ELSE [week |-> week, tow |-> utc_tow]

gps_to_utc_datetime(week, tow, leap_seconds) ==
    LET wt == The({BorrowWeek(w, utc_tow) :
                     w \in {week},
                     utc_tow \in {FSub(tow, DyOfInt(leap_seconds))}})
        total_days == FAdd(DyOfInt(wt.week * 7), FDivInt(wt.tow, 86400))
        mjd == FAdd(DyOfInt(44244), total_days)
    IN  The({mjd_to_ymd(x) : x \in {mjd}})

\* month_days of day_of_year and doy_to_ymd_with_fraction, index 0 dropped
month_days == <<31, 28, 31, 30, 31, 30, 31, 31, 30, 31, 30, 31>>

\* the loop of day_of_year: doy plus month_days[m] for m in range(m, month)
RECURSIVE AddMonthDays(_, _, _)
AddMonthDays(doy, m, month) ==
    IF m >= month THEN doy
    ELSE AddMonthDays(doy + month_days[m], m + 1, month)

\* day_of_year without the leap day after February
day_of_year_no_leap_day(year, month, day) ==
    IF ~_validate_ymd_datetime(year, month, day, 0, 0, DyZero)
    THEN Raise
    ELSE Return(AddMonthDays(day, 1, month))

day_of_year(year, month, day) ==
    IF ~_validate_ymd_datetime(year, month, day, 0, 0, DyZero)
    THEN Raise
    ELSE LET doy == AddMonthDays(day, 1, month)
         IN  Return(IF month > 2 /\ _is_leap_year(year) THEN doy + 1 ELSE doy)

\* hour * 3600 + minute * 60 + second, the integer part added first
HmsSeconds(hour, minute, second) ==
    FAdd(DyOfInt(hour * 3600 + minute * 60), second)

time_of_day(hour, minute, second) ==
    IF ~(/\ 0 <= hour /\ hour <= 23
         /\ 0 <= minute /\ minute <= 59
         /\ DyLe(DyZero, second) /\ DyLt(second, DyOfInt(60)))
    THEN Raise
    ELSE Return(HmsSeconds(hour, minute, second))

utc_to_bjt_datetime(year, month, day, hour, minute, second) ==
    The({IF Raised(mjd) THEN Raise
         ELSE Return(The(
                {Civil(new.year, new.month, new.day,
                       t.hour, t.minute, t.second) :
                    t \in {SplitSeconds(tod) :
                             tod \in {FMod(total_seconds, 86400)}},
                    new \in {mjd_to_ymd(x) :
                               x \in {FAdd(ValueOf(mjd), DyOfInt(day_offset)) :
                                        day_offset \in
                                          {FFloorDiv(total_seconds, 86400)}}}})) :
           total_seconds \in {FAdd(HmsSeconds(hour, minute, second),
                                   DyOfInt(8 * 3600))},
           mjd \in {ymd_to_mjd(year, month, day, 0, 0, DyZero)}})

ymd_to_doy_with_fraction(year, month, day, hour, minute, second) ==
    LET doy == day_of_year(year, month, day) IN
    IF Raised(doy) THEN Raise
    ELSE Return(FAdd(DyOfInt(ValueOf(doy)),
                     FDivInt(HmsSeconds(hour, minute, second), 86400)))

\* WalkMonths on the table of a common year, whatever the year
WalkMonthsNoLeap(leap, m, remaining_doy) ==
    LET start == AddMonthDays(0, 1, m) + remaining_doy
        month == CHOOSE k \in 1..12 :
                    \/ k = 12 /\ start > AddMonthDays(0, 1, 12)
                    \/ /\ start > AddMonthDays(0, 1, k)
                       /\ start <= AddMonthDays(0, 1, k + 1)
                    \/ k = m /\ start <= AddMonthDays(0, 1, m)
    IN  [month |-> month, day |-> start - AddMonthDays(0, 1, month)]

\* the month walk of doy_to_ymd_with_fraction from month m on; leap says
\* that month_days[2] was set to 29
RECURSIVE WalkMonths(_, _, _)
WalkMonths(leap, m, remaining_doy) ==
    LET days_in_m == IF m = 2 /\ leap THEN 29 ELSE month_days[m] IN
    IF m > 12 THEN [month |-> 12, day |-> remaining_doy]
    ELSE IF remaining_doy <= days_in_m THEN [month |-> m, day |-> remaining_doy]
    ELSE WalkMonths(leap, m + 1, remaining_doy - days_in_m)

doy_to_ymd_with_fraction(year, doy_fraction) ==
    The({LET md == WalkMonths(_is_leap_year(year), 1, doy)
             t  == The({SplitSeconds(x) :
                          x \in {FMulInt(FSub(doy_fraction, DyOfInt(doy)),
                                         86400)}})
         IN  Civil(year, md.month, md.day, t.hour, t.minute, t.second) :
           doy \in {DyTrunc(doy_fraction)}})

\* the dead adjustment of bjt_to_utc_datetime for a negative remainder
BorrowDay(day_offset, utc_seconds_of_day) ==
    IF DyLt(utc_seconds_of_day, DyZero)
    THEN [offset |-> day_offset - 1,
          sod |-> FAdd(utc_seconds_of_day, DyOfInt(86400))]
    ELSE [offset |-> day_offset, sod |-> utc_seconds_of_day]

\* the conversion of utc_seconds_of_day to hour, minute, second
SecondsToHms(utc_seconds_of_day) ==
    [hour   |-> FFloorDiv(utc_seconds_of_day, 3600),
     minute |-> FFloorDiv(FMod(utc_seconds_of_day, 3600), 60),
     second |-> FMod(utc_seconds_of_day, 60)]

bjt_to_utc_datetime(year, month, day, hour, minute, second) ==
    The({IF Raised(bjt_mjd) THEN Raise
         ELSE Return(The(
                {The({Civil(utc.year, utc.month, utc.day,
                            t.hour, t.minute, t.second) :
                        t \in {SecondsToHms(x) : x \in {b.sod}},
                        utc \in {mjd_to_ymd(x) :
                                    x \in {FAdd(ValueOf(bjt_mjd),
                                                DyOfInt(b.offset))}}}) :
                    b \in {BorrowDay(o, x) :
                              o \in {FFloorDiv(utc_total_seconds, 86400)},
                              x \in {FMod(utc_total_seconds, 86400)}}})) :
           utc_total_seconds \in {FSub(HmsSeconds(hour, minute, second),
                                       DyOfInt(8 * 3600))},
           bjt_mjd \in {ymd_to_mjd(year, month, day, 0, 0, DyZero)}})

(***************************************************************************)
(* gps_time/leap_second_table.py.  A date is <<year, month, day>>, ordered *)
(* as datetime.date orders dates; a record of the table is a pair          *)
(* <<valid_since, leap_second>>; an optional argument is << >> for None    *)
(* and <<v>> for the value v.                                              *)
(***************************************************************************)
\* what a call that raises IndexError yields: a pair, which no value is
RaiseIndexError == <<0, 0>>

None == << >>
Some(v) == <<v>>

\* datetime.date(year, month, day): ValueError unless it is a date of the
\* proleptic Gregorian calendar in the years 1..9999
dt_date(year, month, day) ==
    IF /\ 1 <= year /\ year <= 9999
       /\ 1 <= month /\ month <= 12
       /\ 1 <= day
       /\ day <= (IF month = 2 /\ _is_leap_year(year) THEN 29 ELSE month_days[month])
    THEN Return(<<year, month, day>>)
    ELSE Raise

\* a > b for dates
DateGt(a, b) ==
    \/ a[1] > b[1]
    \/ a[1] = b[1] /\ a[2] > b[2]
    \/ a[1] = b[1] /\ a[2] = b[2] /\ a[3] > b[3]

\* a >= b for dates
DateGe(a, b) ==
    \/ a[1] > b[1]
    \/ a[1] = b[1] /\ a[2] > b[2]
    \/ a[1] = b[1] /\ a[2] = b[2] /\ a[3] >= b[3]

\* the loop of get_leap_second over the records i.. of the table
RECURSIVE ScanRecords(_, _, _, _)
ScanRecords(table, i, query_date, result) ==
    IF i > Len(table) THEN result
    ELSE ScanRecords(table, i + 1, query_date,
                     IF DateGe(query_date, table[i][1])
                     THEN table[i][2] ELSE result)

\* get_leap_second that looks at year, month and day before the date object
get_leap_second_fields_first(table, year, month, day, date) ==
    LET query ==
            IF year # None /\ month # None /\ day # None
            THEN dt_date(year[1], month[1], day[1])
            ELSE IF date # None THEN Return(date[1])
                 ELSE Raise
    IN  IF Raised(query) THEN Raise
        ELSE IF table = << >> THEN RaiseIndexError
        ELSE Return(ScanRecords(table, 1, ValueOf(query), table[1][2]))

get_leap_second(table, year, month, day, date) ==
    LET query ==
            IF date # None THEN Return(date[1])
            ELSE IF year # None /\ month # None /\ day # None
                 THEN dt_date(year[1], month[1], day[1])
                 ELSE Raise
    IN  IF Raised(query) THEN Raise
        ELSE IF table = << >> THEN RaiseIndexError
        ELSE Return(ScanRecords(table, 1, ValueOf(query), table[1][2]))

\* a line of the file after strip(): what it starts with ("DIFFERENCE",
\* "-----" or neither), which of "GPS-UTC", "VALID SINCE" and "(SEC)" it
\* contains, and the parts split() gives; a part is the text of a number,
\* written as an integer or with a point, or some other word
NumberText(value, literal) ==
    [text |-> "number", value |-> value, literal |-> literal]
WordText == [text |-> "word"]
Line(starts, contains, parts) ==
    [starts |-> starts, contains |-> contains, parts |-> parts]

\* int(part): ValueError unless the part is written as an integer
py_int(part) ==
    IF part.text = "number" /\ part.literal = "int"
    THEN Return(DyTrunc(part.value)) ELSE Raise

\* int(float(part)): ValueError unless the part is a number
py_int_float(part) ==
    IF part.text = "number" THEN Return(DyTrunc(part.value)) ELSE Raise

\* the two continue tests of _parse
SkippedLine(line) ==
    \/ line.parts = << >>
    \/ line.starts \in {"DIFFERENCE", "-----"}
    \/ line.contains # {}

\* the body of the loop of _parse for a line that is not skipped: the record
\* list after it, or ValueError
ParseLine(line, records) ==
    IF Len(line.parts) < 7 THEN Return(records)
    ELSE IF \/ Raised(py_int_float(line.parts[1]))
            \/ Raised(py_int(line.parts[2]))
            \/ Raised(py_int(line.parts[3]))
            \/ Raised(py_int(line.parts[4]))
    THEN Raise
    ELSE LET valid_since == dt_date(ValueOf(py_int(line.parts[2])),
                                    ValueOf(py_int(line.parts[3])),
                                    ValueOf(py_int(line.parts[4])))
         IN  IF Raised(valid_since) THEN Raise
             ELSE Return(Append(records,
                            <<ValueOf(valid_since),
                              ValueOf(py_int_float(line.parts[1]))>>))

\* the loop of _parse from line i on
RECURSIVE ParseFrom(_, _, _)
ParseFrom(lines, i, records) ==
    IF i > Len(lines) THEN Return(records)
    ELSE IF SkippedLine(lines[i]) THEN ParseFrom(lines, i + 1, records)
    ELSE LET r == ParseLine(lines[i], records)
         IN  IF Raised(r) THEN Raise ELSE ParseFrom(lines, i + 1, ValueOf(r))

\* self.leap_seconds after _parse, or ValueError
_parse(lines) == ParseFrom(lines, 1, << >>)

(***************************************************************************)
(* gps_time/cli.py: the convert command, from its parsed options to its    *)
(* exit.  An option that takes a text is None or Some(text); a text is     *)
(* held as what its characters say: nothing (the empty string), a date and *)
(* time YYYY-MM-DD HH:MM:SS, two numbers around one comma, or something    *)
(* else.  The second number of a pair is written as an integer or as a     *)
(* decimal, and int() reads only the former.  env is what the command      *)
(* finds outside itself: whether the leap-second file opens, the records   *)
(* it parses to, and the clock.                                            *)
(***************************************************************************)
GPS_EPOCH == <<1980, 1, 6>>

EmptyText == [form |-> "empty"]
MalformedText == [form |-> "malformed"]
DateTimeText(y, mo, d, h, mi, sec) ==
    [form |-> "datetime", year |-> y, month |-> mo, day |-> d,
     hour |-> h, minute |-> mi, second |-> sec]
PairText(a, b, literal) ==
    [form |-> "pair", a |-> a, b |-> b, literal |-> literal]

\* datetime.strptime(text, "%Y-%m-%d %H:%M:%S"): the datetime, or ValueError
strptime(text) ==
    IF /\ text.form = "datetime"
       /\ ~Raised(dt_date(text.year, text.month, text.day))
       /\ text.hour \in 0..23 /\ text.minute \in 0..59 /\ text.second \in 0..59
    THEN Return(text)
    ELSE Raise

\* how the command ends: a ClickException (message on stderr, exit code 1),
\* an exception nothing catches (traceback, exit code 1), or the eight
\* fields printed (exit code 0).  warnings are the warnings echoed before;
\* resolved and leap are the locals year .. second and leap_seconds of
\* lines 239-248, None when the command ends before it assigns them.
ClickException(message, warnings) ==
    [exit |-> 1, unhandled |-> FALSE, message |-> message,
     warnings |-> warnings, resolved |-> None, leap |-> None, out |-> None]
Unhandled(exception, warnings, resolved) ==
    [exit |-> 1, unhandled |-> TRUE, message |-> exception,
     warnings |-> warnings, resolved |-> resolved, leap |-> None, out |-> None]
Printed(warnings, resolved, leap, out) ==
    [exit |-> 0, unhandled |-> FALSE, message |-> "",
     warnings |-> warnings, resolved |-> Some(resolved), leap |-> Some(leap),
     out |-> Some(out)]

\* the input is resolved to the UTC fields, or the command has ended
Resolved(civ) == [tag |-> "civil", civ |-> civ]
Ended(outcome) == [tag |-> "exit", outcome |-> outcome]

\* sum(input_options) that does not count --now
input_options_without_now(o) ==
    (IF o.datetime_str # None THEN 1 ELSE 0)
    + (IF o.year_doy # None THEN 1 ELSE 0)
    + (IF o.mjd_input # None THEN 1 ELSE 0)
    + (IF o.bjt_str # None THEN 1 ELSE 0)
    + (IF o.gps_week_dow # None THEN 1 ELSE 0)
    + (IF o.gps_week_tow # None THEN 1 ELSE 0)

\* sum(input_options)
input_options(o) ==
    (IF o.now THEN 1 ELSE 0)
    + (IF o.datetime_str # None THEN 1 ELSE 0)
    + (IF o.year_doy # None THEN 1 ELSE 0)
    + (IF o.mjd_input # None THEN 1 ELSE 0)
    + (IF o.bjt_str # None THEN 1 ELSE 0)
    + (IF o.gps_week_dow # None THEN 1 ELSE 0)
    + (IF o.gps_week_tow # None THEN 1 ELSE 0)

\* bool(text) of an option: None and the empty string are false
Truthy(option) == option # None /\ option[1].form # "empty"

\* the civil fields with a float second
WithFloatSecond(t) ==
    Civil(t.year, t.month, t.day, t.hour, t.minute, DyOfInt(t.second))

\* the two passes of the GPS branches: offset 0, the table's offset for the
\* date that gives, and the conversion again; only ValueError is caught
ResolveGps(week, tow, env) ==
    The({IF ~env.file_found
         THEN Ended(Unhandled("FileNotFoundError", {}, None))
         ELSE The({IF Raised(ls)
                   THEN Ended(ClickException("Invalid format", {}))
                   ELSE IF ls = RaiseIndexError
                   THEN Ended(Unhandled("IndexError", {}, None))
                   ELSE The({Resolved(c) :
                               c \in {gps_to_utc_datetime(week, tow,
                                                          ValueOf(ls))}}) :
                     ls \in {get_leap_second(env.table, Some(p.year),
                                             Some(p.month), Some(p.day),
                                             None)}}) :
           p \in {gps_to_utc_datetime(week, tow, 0)}})

\* the chain if now / elif datetime_str / ... / elif gps_week_dow
ResolveInput(o, env) ==
    IF o.now THEN Resolved(env.clock)
    ELSE IF Truthy(o.datetime_str) THEN
        (IF Raised(strptime(o.datetime_str[1]))
         THEN Ended(ClickException("Invalid datetime format", {}))
         ELSE Resolved(WithFloatSecond(o.datetime_str[1])))
    ELSE IF Truthy(o.year_doy) THEN
        (IF o.year_doy[1].form # "pair"
         THEN Ended(ClickException("Invalid format", {}))
         ELSE The({Resolved(doy_to_ymd_with_fraction(year, doy)) :
                     year \in {o.year_doy[1].a}, doy \in {o.year_doy[1].b}}))
    ELSE IF o.mjd_input # None THEN
        The({Resolved(mjd_to_ymd(x)) : x \in {o.mjd_input[1]}})
    ELSE IF Truthy(o.bjt_str) THEN
        (IF Raised(strptime(o.bjt_str[1]))
         THEN Ended(ClickException("Invalid datetime format", {}))
         ELSE The({IF Raised(utc)
                   THEN Ended(ClickException("Invalid datetime format", {}))
                   ELSE Resolved(ValueOf(utc)) :
                     utc \in {bjt_to_utc_datetime(dt.year, dt.month, dt.day,
                                  dt.hour, dt.minute, dt.second) :
                                 dt \in {WithFloatSecond(o.bjt_str[1])}}}))
    ELSE IF Truthy(o.gps_week_tow) THEN
        (IF o.gps_week_tow[1].form # "pair"
         THEN Ended(ClickException("Invalid format", {}))
         ELSE The({ResolveGps(week, tow, env) :
                     week \in {o.gps_week_tow[1].a},
                     tow \in {o.gps_week_tow[1].b}}))
    ELSE IF Truthy(o.gps_week_dow) THEN
        (IF o.gps_week_dow[1].form # "pair"
            \/ o.gps_week_dow[1].literal # "int"
         THEN Ended(ClickException("Invalid format", {}))
         ELSE The({ResolveGps(week, tow, env) :
                     week \in {o.gps_week_dow[1].a},
                     tow \in {FMulInt(o.gps_week_dow[1].b, 86400)}}))
    ELSE Resolved(Civil(0, 0, 0, 0, 0, DyZero))

\* the eight fields, second shown as int(second)
OutputFields(c, mjd, doy, tod, bjt, gps, json_output) ==
    [utc |-> <<c.year, c.month, c.day, c.hour, c.minute, DyTrunc(c.second)>>,
     bjt |-> <<bjt.year, bjt.month, bjt.day, bjt.hour, bjt.minute,
               DyTrunc(bjt.second)>>,
     mjd |-> mjd, doy |-> doy, tod |-> tod,
     week |-> gps.week, dow |-> gps.dow, tow |-> gps.tow,
     json |-> json_output]

\* lines 241-281: the conversions in their order, the first ValueError ends
\* the command, and the fields are printed
CalculateAll(c, leap, warnings, json_output) ==
    The({IF Raised(mjd) THEN Unhandled("ValueError", warnings, Some(c))
         ELSE The({IF Raised(doy) \/ Raised(tod)
                   THEN Unhandled("ValueError", warnings, Some(c))
                   ELSE The({IF Raised(bjt) \/ Raised(gps)
                             THEN Unhandled("ValueError", warnings, Some(c))
                             ELSE Printed(warnings, c, leap,
                                      OutputFields(c, ValueOf(mjd),
                                          ValueOf(doy), ValueOf(tod),
                                          ValueOf(bjt), ValueOf(gps),
                                          json_output)) :
                               bjt \in {utc_to_bjt_datetime(c.year, c.month,
                                           c.day, c.hour, c.minute, c.second)},
                               gps \in {utc_to_gps_datetime(c.year, c.month,
                                           c.day, c.hour, c.minute, c.second,
                                           leap)}}) :
                     doy \in {day_of_year(c.year, c.month, c.day)},
                     tod \in {time_of_day(c.hour, c.minute, c.second)}}) :
           mjd \in {ymd_to_mjd(c.year, c.month, c.day,
                               c.hour, c.minute, c.second)}})

\* the test of line 233 made against the first record of the table
BeyondFirstRecord(table, input_date) ==
    table # << >> /\ ~DateGe(table[1][1], input_date)

\* leap_table.leap_seconds and input_date > leap_table.leap_seconds[-1][0]
BeyondTable(table, input_date) ==
    table # << >> /\ ~DateGe(table[Len(table)][1], input_date)

\* lines 220-239: the epoch warning, the table, the warning for a date
\* beyond the table, the offset of the date
LookUpAndPrint(c, json_output, env) ==
    LET input_date == dt_date(c.year, c.month, c.day)
        before == IF ~DateGe(ValueOf(input_date), GPS_EPOCH)
                  THEN {"Warning: Date is before GPS epoch (1980-01-06)"} ELSE {}
        beyond == IF BeyondTable(env.table, ValueOf(input_date))
                  THEN {"Warning: Date is beyond leap second table, using latest value"} ELSE {}
        leap_second == get_leap_second(env.table, Some(c.year), Some(c.month),
                                       Some(c.day), None)
    IN  IF Raised(input_date) THEN Unhandled("ValueError", {}, Some(c))
        ELSE IF ~env.file_found
        THEN ClickException("GPSUTC.BSW file not found", before)
        ELSE IF leap_second = RaiseIndexError
        THEN Unhandled("IndexError", before \cup beyond, Some(c))
        ELSE CalculateAll(c, ValueOf(leap_second), before \cup beyond,
                          json_output)

convert(o, env) ==
    IF input_options(o) = 0
    THEN ClickException("Please specify an input time", {})
    ELSE IF input_options(o) > 1
    THEN ClickException("Cannot use multiple input options", {})
    ELSE The({IF r.tag = "exit" THEN r.outcome
              ELSE LookUpAndPrint(r.civ, o.json_output, env) :
                r \in {ResolveInput(o, env)}})

(***************************************************************************)
(* The state: the input a caller holds, and the calls made so far, each    *)
(* with its arguments and what it yielded.  A call takes the input or the  *)
(* value the previous call returned, so the calls form the chains          *)
(* (round trips, repeated conversions) that callers and tests perform.     *)
(* leap_seconds is the record list of the LeapSecondTable the caller has   *)
(* constructed, empty where it has constructed none.  lookups holds the    *)
(* get_leap_second calls that concurrent callers have in progress on that  *)
(* table, each with its arguments, its place in the code and its locals.   *)
(* Where the convert command runs, inp is what it finds outside itself     *)
(* (whether the leap-second file opens, the clock) and leap_seconds the    *)
(* record list that file parses to.                                        *)
(***************************************************************************)
VARIABLES inp, calls, leap_seconds, lookups

vars == <<inp, calls, leap_seconds, lookups>>

\* bounds of the model
MaxCalls == 2
YearSpan == 2
MjdSpan == 3
WeekSpan == 1

\* whole seconds of the day: midnight, the first second, the last second of
\* the first minute, the first minute, noon, the last second of the day
TimesOfDay == {0, 1, 59, 60, 43200, 86399}

CivilOfTime(y, mo, d, t) ==
    Civil(y, mo, d, t \div 3600, (t % 3600) \div 60, DyOfInt(t % 60))

\* years around the MJD origin, two century years of each kind, the GPS
\* epoch and the present
Years ==
    UNION {y..(y + YearSpan) : y \in {1858, 1898, 1979, 1999, 2022, 2098}}

CalCivilInputs ==
    {[kind |-> "civil", civ |-> CivilOfTime(y, mo, d, t)] :
        y \in Years, mo \in 1..12, d \in {1, 28, 29, 30, 31}, t \in TimesOfDay}

\* the double m + k / 86400
MjdOf(m, k) == FAdd(DyOfInt(m), FDivInt(DyOfInt(k), 86400))

\* whole days around the MJD origin, 1900-03-01, the GPS epoch, 2000-03-01,
\* 2022-03-01 and 2024-03-01
MjdDays ==
    UNION {m..(m + MjdSpan) : m \in {-2, 15077, 44243, 51602, 59637, 60368}}

CalMjdInputs ==
    {[kind |-> "mjd", m |-> m, k |-> k, mjd |-> MjdOf(m, k)] :
        m \in MjdDays, k \in TimesOfDay}

\* leap-second offsets (GPS - UTC): before the GPS epoch, at it, and today's
Leaps == {-9, 0, 18}

\* times near the ends of the day and of the week
GpsTimesOfDay == {0, 3, 43200, 86390, 86399}

\* the days around the GPS epoch (a Sunday) and the end of its first week,
\* and dates of 2022, 2024 and 2026
GpsDates ==
    {<<1979, 12, 31>>, <<1980, 1, 5>>, <<1980, 1, 6>>, <<1980, 1, 7>>,
     <<1980, 1, 12>>, <<1980, 1, 13>>, <<2022, 6, 15>>, <<2022, 6, 18>>,
     <<2024, 5, 20>>, <<2024, 6, 15>>, <<2026, 2, 13>>, <<2026, 2, 14>>}

GpsCivilInputs ==
    {[kind |-> "civil", civ |-> CivilOfTime(ymd[1], ymd[2], ymd[3], t)] :
        ymd \in GpsDates, t \in GpsTimesOfDay}

Weeks == UNION {w..(w + WeekSpan) : w \in {-1, 1, 2214, 2405}}

Tows == {0, 5, 60, 432000, 475219, 604795, 604799}

GpsInputs ==
    {[kind |-> "gps", week |-> w, tow |-> DyOfInt(t)] : w \in Weeks, t \in Tows}

Last == calls[Len(calls)]

\* the civil date-times a call may take: the input, or the last call's result
CivilArgs ==
    (IF inp.kind = "civil" THEN {inp.civ} ELSE {})
    \cup (IF inp.kind = "pair" THEN {inp.civ, inp.later} ELSE {})
    \cup (IF calls # << >>
             /\ Last.fn \in {"mjd_to_ymd", "gps_to_utc_datetime",
                             "utc_to_bjt_datetime", "bjt_to_utc_datetime",
                             "doy_to_ymd_with_fraction"}
             /\ ~Raised(Last.res)
          THEN {ValueOf(Last.res)} ELSE {})

MjdArgs ==
    (IF inp.kind = "mjd" THEN {inp.mjd} ELSE {})
    \cup (IF calls # << >> /\ Last.fn = "ymd_to_mjd" /\ ~Raised(Last.res)
          THEN {ValueOf(Last.res)} ELSE {})

GpsArgs ==
    (IF inp.kind = "gps" THEN {[week |-> inp.week, tow |-> inp.tow]} ELSE {})
    \cup (IF calls # << >> /\ Last.fn = "utc_to_gps_datetime"
             /\ ~Raised(Last.res)
          THEN {[week |-> ValueOf(Last.res).week, tow |-> ValueOf(Last.res).tow]}
          ELSE {})

CallYmdToMjd ==
    /\ Len(calls) < MaxCalls
    /\ \E c \in CivilArgs :
          calls' = Append(calls,
              [fn |-> "ymd_to_mjd", arg |-> c,
               res |-> ymd_to_mjd(c.year, c.month, c.day,
                                  c.hour, c.minute, c.second)])
    /\ UNCHANGED <<inp, leap_seconds, lookups>>

CallMjdToYmd ==
    /\ Len(calls) < MaxCalls
    /\ \E x \in MjdArgs :
          calls' = Append(calls,
              [fn |-> "mjd_to_ymd", arg |-> x, res |-> Return(mjd_to_ymd(x))])
    /\ UNCHANGED <<inp, leap_seconds, lookups>>

CallUtcToGps ==
    /\ Len(calls) < MaxCalls
    /\ \E c \in CivilArgs, leap \in Leaps :
          calls' = Append(calls,
              [fn |-> "utc_to_gps_datetime", arg |-> c, leap |-> leap,
               res |-> utc_to_gps_datetime(c.year, c.month, c.day, c.hour,
                                           c.minute, c.second, leap)])
    /\ UNCHANGED <<inp, leap_seconds, lookups>>

CallGpsToUtc ==
    /\ Len(calls) < MaxCalls
    /\ \E g \in GpsArgs, leap \in Leaps :
          calls' = Append(calls,
              [fn |-> "gps_to_utc_datetime", arg |-> g, leap |-> leap,
               res |-> Return(gps_to_utc_datetime(g.week, g.tow, leap))])
    /\ UNCHANGED <<inp, leap_seconds, lookups>>

\* civil date-times and Modified Julian Dates
InitCal ==
    /\ inp \in CalCivilInputs \cup CalMjdInputs
    /\ calls = << >> /\ leap_seconds = << >> /\ lookups = << >>
NextCal == CallYmdToMjd \/ CallMjdToYmd
SpecCal == InitCal /\ [][NextCal]_vars

\* UTC and GPS time
InitGps ==
    /\ inp \in GpsCivilInputs \cup GpsInputs
    /\ calls = << >> /\ leap_seconds = << >> /\ lookups = << >>
NextGps == CallUtcToGps \/ CallGpsToUtc
SpecGps == InitGps /\ [][NextGps]_vars

\* dates on both sides of a month end, a leap day, a year end and a
\* century year that is no leap year, and dates of 2022 and 2024
BjtDates ==
    {<<1900, 2, 28>>, <<2022, 6, 15>>, <<2023, 2, 28>>, <<2023, 3, 1>>,
     <<2023, 12, 31>>, <<2024, 1, 1>>, <<2024, 1, 15>>, <<2024, 2, 28>>,
     <<2024, 2, 29>>, <<2024, 3, 1>>, <<2024, 6, 30>>}

\* times on both sides of 08:00:00 and of 16:00:00, and the ends of the day
BjtTimesOfDay == {0, 1, 28799, 28800, 43200, 57599, 57600, 72000, 86399}

BjtCivilInputs ==
    {[kind |-> "civil", civ |-> CivilOfTime(ymd[1], ymd[2], ymd[3], t)] :
        ymd \in BjtDates, t \in BjtTimesOfDay}

\* leap years and common years of both kinds
DoyYears == {1900, 2000, 2023, 2024}

\* dates at 00:00:00, some of them no dates of the calendar
DoyCivilInputs ==
    {[kind |-> "civil", civ |-> CivilOfTime(y, mo, d, 0)] :
        y \in DoyYears, mo \in 1..12, d \in {1, 15, 28, 29, 30, 31}}

\* the largest double below 1
AlmostOne == DySub(DyOfInt(1), DyScale(DyOfInt(1), -53))

\* fractions of a day: none, a second, noon, the last second, 1 - 2^-44 and
\* AlmostOne
Fractions ==
    {DyZero, FDivInt(DyOfInt(1), 86400), DyScale(DyOfInt(1), -1),
     FDivInt(DyOfInt(86399), 86400),
     DySub(DyOfInt(1), DyScale(DyOfInt(1), -44)), AlmostOne}

\* a year and a day of year n + f, for n from 0 to one past the longest year
DoyInputs ==
    {[kind |-> "doy", year |-> y, n |-> n, f |-> f,
      doy_fraction |-> FAdd(DyOfInt(n), f)] :
        y \in DoyYears, n \in 0..367, f \in {DyZero, DyScale(DyOfInt(1), -1)}}

\* the largest double below 60
AlmostSixty == DySub(DyOfInt(60), DyScale(DyOfInt(1), -47))

\* hour, minute, second: in range, and one of them out of range
FieldTimes ==
    {<<0, 0, DyZero>>, <<12, 30, DyScale(DyOfInt(91), -1)>>,
     <<23, 59, DyOfInt(59)>>, <<23, 59, AlmostSixty>>,
     <<-1, 0, DyZero>>, <<24, 0, DyZero>>, <<25, 0, DyZero>>,
     <<0, -1, DyZero>>, <<0, 60, DyZero>>,
     <<0, 0, DyOfInt(-1)>>, <<0, 0, DyOfInt(60)>>,
     <<0, 0, DyNeg(DyScale(DyOfInt(1), -60))>>}

\* civil fields, in range or not
FieldInputs ==
    {[kind |-> "civil", civ |-> Civil(y, mo, d, t[1], t[2], t[3])] :
        y \in {2023, 2024}, mo \in {0, 1, 2, 4, 12, 13},
        d \in {0, 1, 29, 30, 31, 32}, t \in FieldTimes}

\* the year and day of year a call may take: the input, the last call's
\* day_of_year plus a fraction, or the last call's ymd_to_doy_with_fraction
DoyArgs ==
    (IF inp.kind = "doy"
     THEN {[year |-> inp.year, doy_fraction |-> inp.doy_fraction]} ELSE {})
    \cup (IF calls # << >> /\ Last.fn = "day_of_year" /\ ~Raised(Last.res)
          THEN {[year |-> Last.arg.year,
                 doy_fraction |-> FAdd(DyOfInt(ValueOf(Last.res)), f)] :
                    f \in Fractions}
          ELSE {})
    \cup (IF calls # << >> /\ Last.fn = "ymd_to_doy_with_fraction"
             /\ ~Raised(Last.res)
          THEN {[year |-> Last.arg.year, doy_fraction |-> ValueOf(Last.res)]}
          ELSE {})

CallDayOfYear ==
    /\ Len(calls) < MaxCalls
    /\ \E c \in CivilArgs :
          calls' = Append(calls,
              [fn |-> "day_of_year", arg |-> c,
               res |-> day_of_year(c.year, c.month, c.day)])
    /\ UNCHANGED <<inp, leap_seconds, lookups>>

CallTimeOfDay ==
    /\ Len(calls) < MaxCalls
    /\ \E c \in CivilArgs :
          calls' = Append(calls,
              [fn |-> "time_of_day", arg |-> c,
               res |-> time_of_day(c.hour, c.minute, c.second)])
    /\ UNCHANGED <<inp, leap_seconds, lookups>>

CallUtcToBjt ==
    /\ Len(calls) < MaxCalls
    /\ \E c \in CivilArgs :
          calls' = Append(calls,
              [fn |-> "utc_to_bjt_datetime", arg |-> c,
               res |-> utc_to_bjt_datetime(c.year, c.month, c.day,
                                           c.hour, c.minute, c.second)])
    /\ UNCHANGED <<inp, leap_seconds, lookups>>

CallBjtToUtc ==
    /\ Len(calls) < MaxCalls
    /\ \E c \in CivilArgs :
          calls' = Append(calls,
              [fn |-> "bjt_to_utc_datetime", arg |-> c,
               res |-> bjt_to_utc_datetime(c.year, c.month, c.day,
                                           c.hour, c.minute, c.second)])
    /\ UNCHANGED <<inp, leap_seconds, lookups>>

CallYmdToDoy ==
    /\ Len(calls) < MaxCalls
    /\ \E c \in CivilArgs :
          calls' = Append(calls,
              [fn |-> "ymd_to_doy_with_fraction", arg |-> c,
               res |-> ymd_to_doy_with_fraction(c.year, c.month, c.day,
                                                c.hour, c.minute, c.second)])
    /\ UNCHANGED <<inp, leap_seconds, lookups>>

CallDoyToYmd ==
    /\ Len(calls) < MaxCalls
    /\ \E a \in DoyArgs :
          calls' = Append(calls,
              [fn |-> "doy_to_ymd_with_fraction", arg |-> a,
               res |-> Return(doy_to_ymd_with_fraction(a.year, a.doy_fraction))])
    /\ UNCHANGED <<inp, leap_seconds, lookups>>

\* UTC and Beijing time
InitBjt ==
    /\ inp \in BjtCivilInputs
    /\ calls = << >> /\ leap_seconds = << >> /\ lookups = << >>
NextBjt == CallUtcToBjt \/ CallBjtToUtc
SpecBjt == InitBjt /\ [][NextBjt]_vars

\* dates and days of the year
InitDoy ==
    /\ inp \in DoyCivilInputs \cup DoyInputs
    /\ calls = << >> /\ leap_seconds = << >> /\ lookups = << >>
NextDoy == CallDayOfYear \/ CallDoyToYmd \/ CallYmdToDoy
SpecDoy == InitDoy /\ [][NextDoy]_vars

\* the functions that validate their civil fields
InitVal ==
    /\ inp \in FieldInputs
    /\ calls = << >> /\ leap_seconds = << >> /\ lookups = << >>
NextVal == CallYmdToMjd \/ CallDayOfYear \/ CallTimeOfDay
SpecVal == InitVal /\ [][NextVal]_vars

\* the converters that take civil fields
InitFields ==
    /\ inp \in FieldInputs
    /\ calls = << >> /\ leap_seconds = << >> /\ lookups = << >>
NextFields == CallUtcToBjt \/ CallBjtToUtc \/ CallUtcToGps \/ CallYmdToDoy
SpecFields == InitFields /\ [][NextFields]_vars

\* bounds of the leap-second table and of the lookups made on it
MaxRecords == 2
MaxLookups == 1

\* records: the GPS epoch, the first leap second after it, and the latest
TableRecords ==
    {<<<<1980, 1, 6>>, 0>>, <<<<1981, 7, 1>>, 1>>, <<<<2017, 1, 1>>, 18>>}

\* the record lists of up to MaxRecords records, in any order
RECURSIVE TablesOfLen(_)
TablesOfLen(n) ==
    IF n = 0 THEN {<< >>}
    ELSE {Append(t, r) : t \in TablesOfLen(n - 1), r \in TableRecords}

Tables == UNION {TablesOfLen(n) : n \in 0..MaxRecords}

\* query dates before every record, on an effective date, between two, after
QueryDates == {<<1979, 12, 31>>, <<1981, 7, 1>>, <<1999, 1, 1>>, <<2020, 2, 29>>}

CallGetLeapSecond ==
    /\ Len(calls) < MaxLookups
    /\ \E year \in {None, Some(1981), Some(2017)},
          month \in {None, Some(1), Some(7), Some(13)},
          day \in {None, Some(1), Some(31)},
          date \in {None} \cup {Some(d) : d \in QueryDates} :
          calls' = Append(calls,
              [fn |-> "get_leap_second",
               arg |-> [year |-> year, month |-> month, day |-> day,
                        date |-> date],
               res |-> get_leap_second(leap_seconds, year, month, day, date)])
    /\ UNCHANGED <<inp, leap_seconds, lookups>>

\* the leap-second table
InitLeap ==
    /\ inp = [kind |-> "table"]
    /\ calls = << >> /\ leap_seconds \in Tables /\ lookups = << >>
NextLeap == CallGetLeapSecond
SpecLeap == InitLeap /\ [][NextLeap]_vars

\* the number of callers that look up one table at the same time
MaxCallers == 2

\* the arguments of the concurrent lookups: a date object, the three fields,
\* a missing field, fields that name no date
LookupArgs ==
    {[year |-> None, month |-> None, day |-> None, date |-> Some(d)] :
        d \in {<<1979, 12, 31>>, <<1999, 1, 1>>, <<2020, 2, 29>>}}
    \cup {[year |-> Some(1981), month |-> m, day |-> Some(1), date |-> None] :
            m \in {None, Some(7), Some(13)}}

\* a lookup that has been called and has not run yet
Called(a) ==
    [arg |-> a, pc |-> "resolve", query_date |-> None, result |-> None,
     i |-> 0, res |-> None]

RECURSIVE LookupsOfLen(_)
LookupsOfLen(n) ==
    IF n = 0 THEN {<< >>}
    ELSE {Append(l, Called(a)) : l \in LookupsOfLen(n - 1), a \in LookupArgs}

\* lines 130-135: the query date, or ValueError
ResolveQuery(k) ==
    /\ k \in 1..Len(lookups) /\ lookups[k].pc = "resolve"
    /\ LET a == lookups[k].arg
           query == IF a.date # None THEN Return(a.date[1])
                    ELSE IF a.year # None /\ a.month # None /\ a.day # None
                         THEN dt_date(a.year[1], a.month[1], a.day[1])
                         ELSE Raise
       IN  lookups' = [lookups EXCEPT ![k] =
               IF Raised(query)
               THEN [@ EXCEPT !.pc = "done", !.res = Some(Raise)]
               ELSE [@ EXCEPT !.pc = "first", !.query_date = Some(ValueOf(query))]]
    /\ UNCHANGED <<inp, calls, leap_seconds>>

\* line 137: result = self.leap_seconds[0][1], or IndexError
ReadFirstRecord(k) ==
    /\ k \in 1..Len(lookups) /\ lookups[k].pc = "first"
    /\ lookups' = [lookups EXCEPT ![k] =
           IF leap_seconds = << >>
           THEN [@ EXCEPT !.pc = "done", !.res = Some(RaiseIndexError)]
           ELSE [@ EXCEPT !.pc = "loop", !.result = Some(leap_seconds[1][2]),
                          !.i = 1]]
    /\ UNCHANGED <<inp, calls, leap_seconds>>

\* the loop body that assigns whatever the record's date is
LoopBodyAlwaysAssigns(record, query_date, result) == record[2]

\* lines 139-140: the body of the loop, for one record
LoopBody(record, query_date, result) ==
    IF DateGe(query_date, record[1]) THEN record[2] ELSE result

\* lines 138-140: one turn of the loop over self.leap_seconds
ReadNextRecord(k) ==
    /\ k \in 1..Len(lookups) /\ lookups[k].pc = "loop"
    /\ lookups[k].i <= Len(leap_seconds)
    /\ lookups' = [lookups EXCEPT ![k] =
           [@ EXCEPT !.result = Some(LoopBody(leap_seconds[lookups[k].i],
                                              lookups[k].query_date[1],
                                              lookups[k].result[1])),
                     !.i = @ + 1]]
    /\ UNCHANGED <<inp, calls, leap_seconds>>

\* line 142: the loop is over, return result
ReturnResult(k) ==
    /\ k \in 1..Len(lookups) /\ lookups[k].pc = "loop"
    /\ lookups[k].i > Len(leap_seconds)
    /\ lookups' = [lookups EXCEPT ![k] =
           [@ EXCEPT !.pc = "done", !.res = Some(Return(lookups[k].result[1]))]]
    /\ UNCHANGED <<inp, calls, leap_seconds>>

\* up to MaxCallers callers, each inside one get_leap_second on one table,
\* their steps interleaved in any order
InitConc ==
    /\ inp = [kind |-> "table"]
    /\ calls = << >> /\ leap_seconds \in Tables
    /\ lookups \in UNION {LookupsOfLen(n) : n \in 1..MaxCallers}
NextConc ==
    \E k \in 1..MaxCallers :
        \/ ResolveQuery(k)
        \/ ReadFirstRecord(k)
        \/ ReadNextRecord(k)
        \/ ReturnResult(k)
SpecConc == InitConc /\ [][NextConc]_vars

\* how many of the seven input options one command line may carry
MaxOptions == 2

NoOptions ==
    [now |-> FALSE, datetime_str |-> None, year_doy |-> None,
     mjd_input |-> None, bjt_str |-> None, gps_week_dow |-> None,
     gps_week_tow |-> None, json_output |-> FALSE]

\* texts for --datetime and --bjt: empty, not a date-time, 29 February 2023,
\* before the GPS epoch, around the leap second of 2017-01-01, after the table
DateTimeTexts ==
    {EmptyText, MalformedText,
     DateTimeText(2023, 2, 29, 0, 0, 0), DateTimeText(1979, 12, 31, 0, 0, 0),
     DateTimeText(2016, 12, 31, 23, 59, 59), DateTimeText(2017, 1, 1, 0, 0, 0),
     DateTimeText(2017, 1, 1, 7, 59, 59), DateTimeText(2030, 6, 15, 12, 0, 0)}

\* texts for --year-doy: day 60.5 of 2024, day 200 of 2030, day 0, day 400.5
YearDoyTexts ==
    {MalformedText,
     PairText(2024, DyScale(DyOfInt(121), -1), "float"),
     PairText(2030, DyOfInt(200), "int"),
     PairText(2024, DyZero, "int"),
     PairText(2030, DyScale(DyOfInt(801), -1), "float")}

\* values for --mjd: 2017-01-01 00:00, 2023-02-25 12:00, 2030-06-15 00:00
MjdValues == {DyOfInt(57754), DyScale(DyOfInt(120001), -1), DyOfInt(62692)}

\* texts for --gps-week-tow: week 1930 starts on 2017-01-01, week 77 holds
\* 1981-07-01 at tow 259200, week 2600 lies in 2029
GpsWeekTowTexts ==
    {EmptyText, MalformedText,
     PairText(1930, DyOfInt(5), "int"), PairText(1930, DyOfInt(18), "int"),
     PairText(1930, DyScale(DyOfInt(4001), -1), "float"),
     PairText(1929, DyOfInt(604799), "int"),
     PairText(77, DyOfInt(259200), "int"),
     PairText(2600, DyOfInt(0), "int"),
     PairText(0, DyOfInt(60), "int")}

\* texts for --gps-week-dow: day 0 and day 3 of a week, and a day 2.5
GpsWeekDowTexts ==
    {MalformedText,
     PairText(1930, DyOfInt(0), "int"), PairText(1930, DyOfInt(3), "int"),
     PairText(2600, DyOfInt(1), "int"),
     PairText(1930, DyScale(DyOfInt(5), -1), "float")}

\* the command lines with one input option
SingleOptions ==
    {[NoOptions EXCEPT !.now = TRUE]}
    \cup {[NoOptions EXCEPT !.datetime_str = Some(t)] : t \in DateTimeTexts}
    \cup {[NoOptions EXCEPT !.year_doy = Some(t)] : t \in YearDoyTexts}
    \cup {[NoOptions EXCEPT !.mjd_input = Some(x)] : x \in MjdValues}
    \cup {[NoOptions EXCEPT !.bjt_str = Some(t)] : t \in DateTimeTexts}
    \cup {[NoOptions EXCEPT !.gps_week_tow = Some(t)] : t \in GpsWeekTowTexts}
    \cup {[NoOptions EXCEPT !.gps_week_dow = Some(t)] : t \in GpsWeekDowTexts}

\* the command line o with the options of s added
WithOptions(o, s) ==
    [now |-> o.now \/ s.now,
     datetime_str |-> IF s.datetime_str # None THEN s.datetime_str
                      ELSE o.datetime_str,
     year_doy |-> IF s.year_doy # None THEN s.year_doy ELSE o.year_doy,
     mjd_input |-> IF s.mjd_input # None THEN s.mjd_input ELSE o.mjd_input,
     bjt_str |-> IF s.bjt_str # None THEN s.bjt_str ELSE o.bjt_str,
     gps_week_dow |-> IF s.gps_week_dow # None THEN s.gps_week_dow
                      ELSE o.gps_week_dow,
     gps_week_tow |-> IF s.gps_week_tow # None THEN s.gps_week_tow
                      ELSE o.gps_week_tow,
     json_output |-> o.json_output]

\* the command lines with up to n input options
RECURSIVE OptionsUpTo(_)
OptionsUpTo(n) ==
    IF n = 0 THEN {NoOptions}
    ELSE LET fewer == OptionsUpTo(n - 1)
         IN  fewer \cup {WithOptions(o, s) : o \in fewer, s \in SingleOptions}

\* the record lists a leap-second file parses to: none, the offsets in
\* effect from 1980, 1981, 2015 and 2017, and the same with the last two
\* lines exchanged
CliTables ==
    {<< >>,
     << <<<<1980, 1, 6>>, 0>>, <<<<1981, 7, 1>>, 1>>,
        <<<<2015, 7, 1>>, 17>>, <<<<2017, 1, 1>>, 18>> >>,
     << <<<<1980, 1, 6>>, 0>>, <<<<1981, 7, 1>>, 1>>,
        <<<<2017, 1, 1>>, 18>>, <<<<2015, 7, 1>>, 17>> >>}

\* datetime.utcnow()
ClockTimes ==
    {Civil(2026, 11, 1, 12, 0, DyScale(DyOfInt(61), -1)),
     Civil(2016, 12, 31, 23, 59, DyOfInt(59))}

\* the whole command: one process runs convert once, then exits
Convert ==
    /\ calls = << >>
    /\ \E o \in OptionsUpTo(MaxOptions), json_output \in BOOLEAN :
          calls' = <<[fn |-> "convert",
                      arg |-> [o EXCEPT !.json_output = json_output],
                      res |-> convert([o EXCEPT !.json_output = json_output],
                                      [file_found |-> inp.file_found,
                                       table |-> leap_seconds,
                                       clock |-> inp.clock])]>>
    /\ UNCHANGED <<inp, leap_seconds, lookups>>

InitCli ==
    /\ inp \in {[kind |-> "cli", file_found |-> f, clock |-> c] :
                    f \in BOOLEAN, c \in ClockTimes}
    /\ leap_seconds \in (IF inp.file_found THEN CliTables ELSE {<< >>})
    /\ calls = << >> /\ lookups = << >>
NextCli == Convert
SpecCli == InitCli /\ [][NextCli]_vars

\* the day after year-month-day
NextDay(ymd) ==
    IF ymd[3] < _days_in_month(ymd[1], ymd[2])
    THEN <<ymd[1], ymd[2], ymd[3] + 1>>
    ELSE IF ymd[2] < 12 THEN <<ymd[1], ymd[2] + 1, 1>>
    ELSE <<ymd[1] + 1, 1, 1>>

\* days whose successor is in the next month, the next year or the next GPS
\* week: the ends of February in common, leap and century years, the days
\* around the GPS epoch, and two other month ends
PairDates ==
    {<<1899, 12, 31>>, <<1900, 2, 28>>, <<1979, 12, 31>>, <<1980, 1, 5>>,
     <<1980, 1, 6>>, <<1982, 2, 28>>, <<1983, 2, 28>>, <<2000, 2, 28>>,
     <<2000, 2, 29>>, <<2023, 4, 30>>, <<2024, 2, 28>>, <<2024, 2, 29>>,
     <<2026, 2, 28>>, <<2026, 10, 31>>}

\* midnight, noon and the last second of the day
PairTimes == {0, 43200, 86399}

\* a day with itself, and a day with the day after
PairsOfDates ==
    {<<d, d>> : d \in PairDates} \cup {<<d, NextDay(d)>> : d \in PairDates}

\* two date-times a caller converts one after the other, the first earlier
\* than the second: on the same day, or on a day and the day after
PairInputs ==
    {[kind |-> "pair",
      civ |-> CivilOfTime(p[1][1][1], p[1][1][2], p[1][1][3], p[2]),
      later |-> CivilOfTime(p[1][2][1], p[1][2][2], p[1][2][3], p[3])] :
        p \in {q \in PairsOfDates \X PairTimes \X PairTimes :
                 q[1][1] = q[1][2] => q[2] < q[3]}}

InitPair ==
    /\ inp \in PairInputs
    /\ calls = << >> /\ leap_seconds = << >> /\ lookups = << >>
NextPair == CallYmdToMjd \/ CallUtcToGps
SpecPair == InitPair /\ [][NextPair]_vars

MaxLines == 2

\* the parts of a record line: the offset, the date, and HH MM SS.SS
RecordParts(offset, year, month, day) ==
    <<offset, NumberText(DyOfInt(year), "int"),
      NumberText(DyOfInt(month), "int"), NumberText(DyOfInt(day), "int"),
      NumberText(DyOfInt(0), "int"), NumberText(DyOfInt(0), "int"),
      NumberText(DyOfInt(0), "float")>>

\* lines of a GPSUTC.BSW file: blank, the three kinds of header line, a line
\* of three numbers, the records "1." 1981-07-01 and "18." 2017-01-01, a
\* record of 30 February, a record whose offset is no number and a record
\* whose year is written 2017.0
FileLines ==
    {Line("", {}, << >>),
     Line("DIFFERENCE", {"GPS-UTC"}, <<WordText, WordText, WordText>>),
     Line("-----", {}, <<WordText>>),
     Line("", {"GPS-UTC", "VALID SINCE"}, <<WordText, WordText, WordText>>),
     Line("", {"(SEC)"},
          <<WordText, WordText, WordText, WordText, WordText, WordText,
            WordText>>),
     Line("", {}, <<NumberText(DyOfInt(18), "float"),
                    NumberText(DyOfInt(2017), "int"),
                    NumberText(DyOfInt(1), "int")>>),
     Line("", {}, RecordParts(NumberText(DyOfInt(1), "float"), 1981, 7, 1)),
     Line("", {}, RecordParts(NumberText(DyOfInt(18), "float"), 2017, 1, 1)),
     Line("", {}, RecordParts(NumberText(DyOfInt(18), "float"), 2017, 2, 30)),
     Line("", {}, RecordParts(WordText, 2017, 1, 1)),
     Line("", {}, <<NumberText(DyOfInt(18), "float"),
                    NumberText(DyOfInt(2017), "float"),
                    NumberText(DyOfInt(1), "int"), NumberText(DyOfInt(1), "int"),
                    NumberText(DyOfInt(0), "int"), NumberText(DyOfInt(0), "int"),
                    NumberText(DyOfInt(0), "float")>>)}

\* the files of up to n lines
RECURSIVE FilesUpTo(_)
FilesUpTo(n) ==
    IF n = 0 THEN {<< >>}
    ELSE LET shorter == FilesUpTo(n - 1)
         IN  shorter \cup {Append(f, l) : f \in shorter, l \in FileLines}

\* LeapSecondTable(bsw_path) on a file that opens: __init__ and _parse
Construct ==
    /\ calls = << >>
    /\ calls' = <<[fn |-> "LeapSecondTable", arg |-> inp.lines,
                   res |-> _parse(inp.lines)]>>
    /\ leap_seconds' = IF Raised(_parse(inp.lines)) THEN << >>
                       ELSE ValueOf(_parse(inp.lines))
    /\ UNCHANGED <<inp, lookups>>

\* get_leap_second on the table that was constructed, by a date object or
\* by year, month and day
LookUpParsed ==
    /\ calls # << >> /\ Len(calls) <= MaxLookups
    /\ calls[1].fn = "LeapSecondTable" /\ ~Raised(calls[1].res)
    /\ \E q \in QueryDates, by_fields \in BOOLEAN :
          LET a == IF by_fields
                   THEN [year |-> Some(q[1]), month |-> Some(q[2]),
                         day |-> Some(q[3]), date |-> None]
                   ELSE [year |-> None, month |-> None, day |-> None,
                         date |-> Some(q)]
          IN  calls' = Append(calls,
                  [fn |-> "get_leap_second", arg |-> a,
                   res |-> get_leap_second(leap_seconds, a.year, a.month,
                                           a.day, a.date)])
    /\ UNCHANGED <<inp, leap_seconds, lookups>>

InitParse ==
    /\ inp \in {[kind |-> "file", lines |-> f] : f \in FilesUpTo(MaxLines)}
    /\ calls = << >> /\ leap_seconds = << >> /\ lookups = << >>
NextParse == Construct \/ LookUpParsed
SpecParse == InitParse /\ [][NextParse]_vars

(***************************************************************************)
(* The calendar the claims refer to: the proleptic Gregorian calendar,     *)
(* counted in days, independently of the conversion formulas above.        *)
(***************************************************************************)
RefIsLeap(y) == (y % 4 = 0 /\ y % 100 # 0) \/ y % 400 = 0

RefMonthLength(y, m) ==
    IF m = 2 THEN (IF RefIsLeap(y) THEN 29 ELSE 28)
    ELSE IF m \in {4, 6, 9, 11} THEN 30 ELSE 31

RefValidDate(y, m, d) == m \in 1..12 /\ d \in 1..RefMonthLength(y, m)

RECURSIVE RefDaysBeforeMonth(_, _)
RefDaysBeforeMonth(y, m) ==
    IF m = 1 THEN 0
    ELSE RefDaysBeforeMonth(y, m - 1) + RefMonthLength(y, m - 1)

\* the signed number of calendar days from 1858-11-17 to y-m-d
RefMjd(y, m, d) ==
    365 * (y - 1) + ((y - 1) \div 4) - ((y - 1) \div 100) + ((y - 1) \div 400)
    + RefDaysBeforeMonth(y, m) + d - 678576

\* a valid civil date-time with a whole second
WholeCivil(c) ==
    /\ RefValidDate(c.year, c.month, c.day)
    /\ c.hour \in 0..23 /\ c.minute \in 0..59
    /\ c.second.e >= 0 /\ DyFloor(c.second) \in 0..59

\* a civil date-time with a valid date and every time field in its range
WellFormedCivil(c) ==
    /\ RefValidDate(c.year, c.month, c.day)
    /\ c.hour \in 0..23 /\ c.minute \in 0..59
    /\ DyLe(DyZero, c.second) /\ DyLt(c.second, DyOfInt(60))

\* seconds since midnight, and seconds since 1858-11-17 00:00:00, exactly
SecondsOfDay(c) == DyAdd(DyOfInt(c.hour * 3600 + c.minute * 60), c.second)
SecondsSinceMjd0(c) ==
    DyAdd(DyMulInt(DyOfInt(RefMjd(c.year, c.month, c.day)), 86400),
          SecondsOfDay(c))

DyAbs(x) == [x EXCEPT !.neg = FALSE]

\* |x - y| < 1e-9 for x and y in days (the tolerance the round trips are
\* given on the MJD axis), and the same for x and y in seconds
WithinNanoDay(x, y) ==
    DyLt(DyMulInt(DyMulInt(DyAbs(DySub(x, y)), 15625), 64000), DyOfInt(1))
SecondsWithinNanoDay(x, y) ==
    DyLt(DyMulInt(DyMulInt(DyAbs(DySub(x, y)), 15625), 64000), DyOfInt(86400))

\* |x - y| < 1e-3 for x and y in seconds (the tolerance given on tow)
WithinMilliSecond(x, y) ==
    DyLt(DyMulInt(DyAbs(DySub(x, y)), 1000), DyOfInt(1))

\* call j takes what call i returned
Feeds(i, j) == j = i + 1 /\ j <= Len(calls) /\ ~Raised(calls[i].res)

(***************************************************************************)
(* C1.  Civil -> MJD -> civil round trip: for every valid civil date-time  *)
(* c with a whole second, mjd_to_ymd(ymd_to_mjd(c)) is c.  Stated here in  *)
(* its most lenient reading, the result denoting the instant of c to       *)
(* within 1e-9 day; the field-by-field reading fails all the more.         *)
(***************************************************************************)
C1_CivilRoundTrip ==
    \A i \in 1..(Len(calls) - 1) :
        (/\ calls[i].fn = "ymd_to_mjd" /\ WholeCivil(calls[i].arg)
         /\ calls[i + 1].fn = "mjd_to_ymd" /\ Feeds(i, i + 1)
         /\ calls[i + 1].arg = ValueOf(calls[i].res))
        => LET back == ValueOf(calls[i + 1].res)
           IN  /\ WellFormedCivil(back)
               /\ SecondsWithinNanoDay(SecondsSinceMjd0(back),
                                       SecondsSinceMjd0(calls[i].arg))

(***************************************************************************)
(* C2.  MJD -> civil -> MJD round trip: for every MJD value m,             *)
(* ymd_to_mjd(mjd_to_ymd(m)) equals m.  Stated here in its most lenient    *)
(* reading, equality to within 1e-9 day.                                   *)
(***************************************************************************)
C2_MjdRoundTrip ==
    \A i \in 1..(Len(calls) - 1) :
        (/\ calls[i].fn = "mjd_to_ymd"
         /\ calls[i + 1].fn = "ymd_to_mjd"
         /\ calls[i + 1].arg = ValueOf(calls[i].res))
        => /\ ~Raised(calls[i + 1].res)
           /\ WithinNanoDay(ValueOf(calls[i + 1].res), calls[i].arg)

(***************************************************************************)
(* C3.  ymd_to_mjd agrees with the calendar: for every valid date at       *)
(* 00:00:00 it returns the number of days from 1858-11-17 to that date.    *)
(***************************************************************************)
C3_YmdToMjdAgreesWithCalendar ==
    \A i \in 1..Len(calls) :
        (/\ calls[i].fn = "ymd_to_mjd" /\ WholeCivil(calls[i].arg)
         /\ SecondsOfDay(calls[i].arg) = DyZero)
        => calls[i].res =
             Return(DyOfInt(RefMjd(calls[i].arg.year, calls[i].arg.month,
                                   calls[i].arg.day)))

(***************************************************************************)
(* C4.  mjd_to_ymd agrees with the calendar: for an integer m it returns   *)
(* the date m days after 1858-11-17 at 00:00:00, and for m + k/86400 the   *)
(* same date with time-of-day k seconds.                                   *)
(***************************************************************************)
\* the calls of mjd_to_ymd on the input m + k/86400
OnMjdInput(i) ==
    inp.kind = "mjd" /\ calls[i].fn = "mjd_to_ymd" /\ calls[i].arg = inp.mjd

\* C4 as stated: hour, minute and second are those of k
C4_MjdToYmdExact ==
    \A i \in 1..Len(calls) :
        OnMjdInput(i)
        => LET c == ValueOf(calls[i].res)
           IN  /\ RefValidDate(c.year, c.month, c.day)
               /\ RefMjd(c.year, c.month, c.day) = inp.m
               /\ c.hour = inp.k \div 3600
               /\ c.minute = (inp.k % 3600) \div 60
               /\ c.second = DyOfInt(inp.k % 60)

\* C4 as amended: the date is the date m days after 1858-11-17; the time of
\* day is 00:00:00 exactly for k = 0, and otherwise hour * 3600 + minute * 60
\* + second is within 1e-9 day of k, the fields being in their ranges
C4_MjdToYmdAgreesWithCalendar ==
    \A i \in 1..Len(calls) :
        OnMjdInput(i)
        => LET c == ValueOf(calls[i].res)
           IN  /\ WellFormedCivil(c)
               /\ RefMjd(c.year, c.month, c.day) = inp.m
               /\ inp.k = 0 => SecondsOfDay(c) = DyZero
               /\ SecondsWithinNanoDay(SecondsOfDay(c), DyOfInt(inp.k))

\* reached: the first minute, k = 60, comes back as 00:00:59.99999...
C4_Witness ==
    /\ calls # << >> /\ OnMjdInput(1) /\ inp.k = 60 /\ inp.m = 44244
    /\ ValueOf(calls[1].res).minute = 0
    /\ DyLt(DyOfInt(59), ValueOf(calls[1].res).second)

\* whole calendar days from the GPS epoch, 1980-01-06, to the date of c
DaysSinceGpsEpoch(c) == RefMjd(c.year, c.month, c.day) - 44244

\* w * 604800 + x seconds, exactly
WeekSeconds(w, x) == DyAdd(DyMulInt(DyOfInt(w), 604800), x)

\* seconds from the GPS epoch to the civil date-time c, exactly
SecondsSinceGpsEpoch(c) ==
    DySub(SecondsSinceMjd0(c), DyMulInt(DyOfInt(44244), 86400))

IsUtcToGps(i) == calls[i].fn = "utc_to_gps_datetime"
IsGpsToUtc(i) == calls[i].fn = "gps_to_utc_datetime"

(***************************************************************************)
(* C5.  utc_to_gps_datetime with leap_seconds = 0 agrees with the          *)
(* calendar: for a valid UTC date-time D whole days after 1980-01-06 with  *)
(* time-of-day s, week = floor(D / 7), tow = (D mod 7) * 86400 + s and     *)
(* dow = D mod 7.  tow is compared to within 1e-3 s, the lenient reading.  *)
(***************************************************************************)
C5_UtcToGpsAgreesWithCalendar ==
    \A i \in 1..Len(calls) :
        (IsUtcToGps(i) /\ calls[i].leap = 0 /\ WholeCivil(calls[i].arg))
        => LET D == DaysSinceGpsEpoch(calls[i].arg)
               g == ValueOf(calls[i].res)
           IN  /\ ~Raised(calls[i].res)
               /\ g.week = D \div 7
               /\ g.dow = D % 7
               /\ WithinMilliSecond(g.tow,
                     DyAdd(DyOfInt((D % 7) * 86400), SecondsOfDay(calls[i].arg)))

(***************************************************************************)
(* C6.  GPS -> UTC -> GPS round trip: for every week, tow in [0, 604800)   *)
(* and leap offset (negative ones included), utc_to_gps_datetime(          *)
(* gps_to_utc_datetime(week, tow, leap), leap) returns the same week, the  *)
(* same tow (to within 1e-3 s) and dow = floor(tow / 86400).               *)
(***************************************************************************)
C6_GpsRoundTrip ==
    \A i \in 1..(Len(calls) - 1) :
        (/\ inp.kind = "gps" /\ IsGpsToUtc(i)
         /\ calls[i].arg = [week |-> inp.week, tow |-> inp.tow]
         /\ IsUtcToGps(i + 1) /\ calls[i + 1].leap = calls[i].leap
         /\ calls[i + 1].arg = ValueOf(calls[i].res))
        => /\ ~Raised(calls[i + 1].res)
           /\ ValueOf(calls[i + 1].res).week = inp.week
           /\ WithinMilliSecond(ValueOf(calls[i + 1].res).tow, inp.tow)
           /\ ValueOf(calls[i + 1].res).dow = FFloorDiv(inp.tow, 86400)

(***************************************************************************)
(* C7.  UTC -> GPS -> UTC round trip: for every valid UTC civil date-time  *)
(* c and leap offset L, gps_to_utc_datetime applied to the week and tow    *)
(* that utc_to_gps_datetime(c, L) returns, with the same L, gives the date *)
(* and time of c (to within 1e-3 s, the lenient reading).                  *)
(***************************************************************************)
C7_UtcRoundTrip ==
    \A i \in 1..(Len(calls) - 1) :
        (/\ IsUtcToGps(i) /\ WholeCivil(calls[i].arg) /\ Feeds(i, i + 1)
         /\ IsGpsToUtc(i + 1) /\ calls[i + 1].leap = calls[i].leap
         /\ calls[i + 1].arg = [week |-> ValueOf(calls[i].res).week,
                                tow |-> ValueOf(calls[i].res).tow])
        => LET back == ValueOf(calls[i + 1].res)
           IN  /\ WellFormedCivil(back)
               /\ WithinMilliSecond(SecondsSinceMjd0(back),
                                    SecondsSinceMjd0(calls[i].arg))

(***************************************************************************)
(* C8.  Range of the GPS result: for every valid UTC civil date-time and   *)
(* every leap offset the table can supply (negative ones included),        *)
(* utc_to_gps_datetime returns 0 <= tow < 604800 and 0 <= dow <= 6.        *)
(***************************************************************************)
C8_GpsResultInRange ==
    \A i \in 1..Len(calls) :
        (IsUtcToGps(i) /\ WellFormedCivil(calls[i].arg))
        => /\ ~Raised(calls[i].res)
           /\ DyLe(DyZero, ValueOf(calls[i].res).tow)
           /\ DyLt(ValueOf(calls[i].res).tow, DyOfInt(604800))
           /\ ValueOf(calls[i].res).dow \in 0..6

(***************************************************************************)
(* C9.  Leap-second effect: for a fixed valid UTC civil time and the leap  *)
(* offsets L and L + D, the results (w1, t1) and (w2, t2) of               *)
(* utc_to_gps_datetime satisfy                                             *)
(* (w2 * 604800 + t2) - (w1 * 604800 + t1) = D, exactly.                   *)
(***************************************************************************)
\* calls i and j convert the same valid civil time
SameCivilToGps(i, j) ==
    /\ IsUtcToGps(i) /\ IsUtcToGps(j) /\ calls[i].arg = calls[j].arg
    /\ WellFormedCivil(calls[i].arg)

C9_LeapSecondEffect ==
    \A i, j \in 1..Len(calls) :
        SameCivilToGps(i, j)
        => /\ ~Raised(calls[i].res) /\ ~Raised(calls[j].res)
           /\ DySub(WeekSeconds(ValueOf(calls[j].res).week,
                                ValueOf(calls[j].res).tow),
                    WeekSeconds(ValueOf(calls[i].res).week,
                                ValueOf(calls[i].res).tow))
              = DyOfInt(calls[j].leap - calls[i].leap)

\* reached: the same time converted with two offsets, the larger of which
\* carries it into the next week
C9_Witness ==
    /\ Len(calls) >= 2 /\ SameCivilToGps(1, 2)
    /\ calls[1].leap < calls[2].leap
    /\ ValueOf(calls[2].res).week = ValueOf(calls[1].res).week + 1

(***************************************************************************)
(* C10.  gps_to_utc_datetime agrees with the reference instant: for every  *)
(* week, tow in [0, 604800) and leap offset, the result is the UTC date    *)
(* and time of the instant week * 604800 + tow - leap seconds after        *)
(* 1980-01-06 00:00:00, a week being borrowed when tow - leap is negative. *)
(***************************************************************************)
\* call i converts a tow in [0, 604800)
GpsToUtcInRange(i) ==
    /\ IsGpsToUtc(i)
    /\ DyLe(DyZero, calls[i].arg.tow)
    /\ DyLt(calls[i].arg.tow, DyOfInt(604800))

\* the instant call i is asked for, in seconds after the GPS epoch
GpsInstant(i) ==
    DySub(WeekSeconds(calls[i].arg.week, calls[i].arg.tow),
          DyOfInt(calls[i].leap))

\* C10 as stated: the result is that instant, exactly
C10_GpsToUtcExact ==
    \A i \in 1..Len(calls) :
        GpsToUtcInRange(i)
        => /\ WellFormedCivil(ValueOf(calls[i].res))
           /\ SecondsSinceGpsEpoch(ValueOf(calls[i].res)) = GpsInstant(i)

\* x seconds is a whole number of days
OnMidnight(x) == DyMulInt(DyOfInt(DyFloor(x) \div 86400), 86400) = x

\* C10 as amended: the result is a well-formed civil date-time that denotes
\* the instant to within 1e-9 day, and exactly when the instant is a midnight
C10_GpsToUtcAgreesWithInstant ==
    \A i \in 1..Len(calls) :
        GpsToUtcInRange(i)
        => /\ WellFormedCivil(ValueOf(calls[i].res))
           /\ SecondsWithinNanoDay(SecondsSinceGpsEpoch(ValueOf(calls[i].res)),
                                   GpsInstant(i))
           /\ OnMidnight(GpsInstant(i))
              => SecondsSinceGpsEpoch(ValueOf(calls[i].res)) = GpsInstant(i)

\* reached: week 0, tow 5 with 18 leap seconds borrows a week and lands on
\* Saturday 1980-01-05, 23:59:46.99... or 23:59:47
C10_Witness ==
    /\ calls # << >> /\ GpsToUtcInRange(1)
    /\ calls[1].arg = [week |-> 0, tow |-> DyOfInt(5)] /\ calls[1].leap = 18
    /\ ValueOf(calls[1].res).year = 1980 /\ ValueOf(calls[1].res).month = 1
    /\ ValueOf(calls[1].res).day = 5 /\ ValueOf(calls[1].res).hour = 23
    /\ ValueOf(calls[1].res).minute = 59

IsUtcToBjt(i) == calls[i].fn = "utc_to_bjt_datetime"
IsBjtToUtc(i) == calls[i].fn = "bjt_to_utc_datetime"

\* the whole seconds since midnight of a civil date-time with a whole second
WholeSecondsOfDay(c) == c.hour * 3600 + c.minute * 60 + DyFloor(c.second)

\* r is the calendar date days after the date of c, at t seconds after
\* midnight
IsDateTime(r, c, days, t) ==
    /\ RefValidDate(r.year, r.month, r.day)
    /\ RefMjd(r.year, r.month, r.day) = RefMjd(c.year, c.month, c.day) + days
    /\ r.hour = t \div 3600
    /\ r.minute = (t % 3600) \div 60
    /\ r.second = DyOfInt(t % 60)

(***************************************************************************)
(* C11.  BJT round trip: for every valid UTC civil date-time c (with a     *)
(* whole second), bjt_to_utc_datetime(utc_to_bjt_datetime(c)) returns      *)
(* exactly c, also when the +8h shift crosses a day, month, leap-day or    *)
(* year boundary.                                                          *)
(***************************************************************************)
C11_BjtRoundTrip ==
    \A i \in 1..(Len(calls) - 1) :
        (/\ IsUtcToBjt(i) /\ WholeCivil(calls[i].arg)
         /\ IsBjtToUtc(i + 1) /\ Feeds(i, i + 1)
         /\ calls[i + 1].arg = ValueOf(calls[i].res))
        => calls[i + 1].res = Return(calls[i].arg)

(***************************************************************************)
(* C12.  utc_to_bjt_datetime day rollover: for every valid UTC civil       *)
(* date-time the BJT time of day is the UTC time of day plus 8 hours       *)
(* modulo 24 hours, and the BJT date is the UTC date when the UTC time is  *)
(* before 16:00:00 and the next calendar day when it is 16:00:00 or later. *)
(***************************************************************************)
C12_UtcToBjtRollover ==
    \A i \in 1..Len(calls) :
        (IsUtcToBjt(i) /\ WholeCivil(calls[i].arg))
        => LET t == WholeSecondsOfDay(calls[i].arg) IN
           /\ ~Raised(calls[i].res)
           /\ IsDateTime(ValueOf(calls[i].res), calls[i].arg,
                         IF t < 57600 THEN 0 ELSE 1, (t + 28800) % 86400)

(***************************************************************************)
(* C13.  bjt_to_utc_datetime day rollover: for every valid BJT civil       *)
(* date-time the UTC time of day is the BJT time of day minus 8 hours      *)
(* modulo 24 hours, and the UTC date is the BJT date when the BJT time is  *)
(* 08:00:00 or later and the previous calendar day when it is earlier.     *)
(***************************************************************************)
C13_BjtToUtcRollover ==
    \A i \in 1..Len(calls) :
        (IsBjtToUtc(i) /\ WholeCivil(calls[i].arg))
        => LET t == WholeSecondsOfDay(calls[i].arg) IN
           /\ ~Raised(calls[i].res)
           /\ IsDateTime(ValueOf(calls[i].res), calls[i].arg,
                         IF t >= 28800 THEN 0 ELSE -1, (t + 57600) % 86400)

IsDayOfYear(i) == calls[i].fn = "day_of_year"
IsDoyToYmd(i) == calls[i].fn = "doy_to_ymd_with_fraction"

\* the number of days of the year y
RefYearLength(y) == IF RefIsLeap(y) THEN 366 ELSE 365

(***************************************************************************)
(* C14.  day_of_year agrees with the calendar: for every valid date        *)
(* (y, m, d) it returns 1 plus the number of days of year y that precede   *)
(* the date, so 1 January gives 1 and 31 December gives the length of the  *)
(* year, 366 in a leap year and 365 otherwise.                             *)
(***************************************************************************)
C14_DayOfYearAgreesWithCalendar ==
    \A i \in 1..Len(calls) :
        (IsDayOfYear(i)
         /\ RefValidDate(calls[i].arg.year, calls[i].arg.month, calls[i].arg.day))
        => LET c == calls[i].arg IN
           /\ calls[i].res = Return(RefDaysBeforeMonth(c.year, c.month) + c.day)
           /\ (c.month = 1 /\ c.day = 1) => calls[i].res = Return(1)
           /\ (c.month = 12 /\ c.day = 31)
              => calls[i].res = Return(RefYearLength(c.year))

\* reached: 31 December of a leap year is day 366
C14_Witness ==
    /\ Len(calls) >= 1 /\ IsDayOfYear(1)
    /\ calls[1].arg.year = 2024 /\ calls[1].arg.month = 12
    /\ calls[1].arg.day = 31 /\ calls[1].res = Return(366)

(***************************************************************************)
(* C15.  DOY round trip: for every valid date (y, m, d) and every fraction *)
(* f in [0, 1), doy_to_ymd_with_fraction(y, day_of_year(y, m, d) + f)      *)
(* returns year y, month m and day d; and for every integer n from 1 to    *)
(* the length of year y, day_of_year of the date that                      *)
(* doy_to_ymd_with_fraction(y, n) returns is n.                            *)
(***************************************************************************)
\* call i + 1 is doy_to_ymd_with_fraction on the year of call i, a
\* day_of_year of a valid date, and on its result plus a fraction
DoyThenBack(i) ==
    /\ IsDayOfYear(i) /\ IsDoyToYmd(i + 1) /\ Feeds(i, i + 1)
    /\ RefValidDate(calls[i].arg.year, calls[i].arg.month, calls[i].arg.day)
    /\ calls[i + 1].arg.year = calls[i].arg.year
    /\ \E f \in Fractions :
          calls[i + 1].arg.doy_fraction = FAdd(DyOfInt(ValueOf(calls[i].res)), f)

\* call i + 1 returns the date call i was given
SameDateBack(i) ==
    /\ ValueOf(calls[i + 1].res).year = calls[i].arg.year
    /\ ValueOf(calls[i + 1].res).month = calls[i].arg.month
    /\ ValueOf(calls[i + 1].res).day = calls[i].arg.day

\* the second form: from the input day n of the year, without fraction, to
\* the date and back to the day of the year
BackThenDoy ==
    \A i \in 1..(Len(calls) - 1) :
        (/\ inp.kind = "doy" /\ inp.f = DyZero
         /\ 1 <= inp.n /\ inp.n <= RefYearLength(inp.year)
         /\ IsDoyToYmd(i)
         /\ calls[i].arg = [year |-> inp.year, doy_fraction |-> inp.doy_fraction]
         /\ IsDayOfYear(i + 1) /\ calls[i + 1].arg = ValueOf(calls[i].res))
        => calls[i + 1].res = Return(inp.n)

\* C15 as stated: every fraction f in [0, 1)
C15_DoyRoundTripAnyFraction ==
    /\ \A i \in 1..(Len(calls) - 1) : DoyThenBack(i) => SameDateBack(i)
    /\ BackThenDoy

\* C15 as amended: the fractions f for which the double day_of_year + f is
\* below day_of_year + 1
C15_DoyRoundTrip ==
    /\ \A i \in 1..(Len(calls) - 1) :
          (/\ DoyThenBack(i)
           /\ DyLt(calls[i + 1].arg.doy_fraction,
                   DyOfInt(ValueOf(calls[i].res) + 1)))
          => SameDateBack(i)
    /\ BackThenDoy

\* reached: 29 February 2024 is day 60, and day 60 + 86399/86400 of 2024 is
\* 29 February
C15_Witness ==
    /\ Len(calls) = 2 /\ DoyThenBack(1)
    /\ calls[1].arg.year = 2024 /\ calls[1].arg.month = 2
    /\ calls[1].arg.day = 29 /\ calls[1].res = Return(60)
    /\ calls[2].arg.doy_fraction =
          FAdd(DyOfInt(60), FDivInt(DyOfInt(86399), 86400))
    /\ ValueOf(calls[2].res).month = 2 /\ ValueOf(calls[2].res).day = 29

(***************************************************************************)
(* C16.  Date validation: ymd_to_mjd and day_of_year raise ValueError      *)
(* exactly when the month is outside 1..12 or the day is outside 1..the    *)
(* length of the month (29 February only in leap years, no day 31 in a     *)
(* month of 30 days); ymd_to_mjd raises also exactly when the hour is      *)
(* outside 0..23, the minute outside 0..59 or the second outside [0, 60).  *)
(* No other input raises, and no invalid input gets a value.               *)
(***************************************************************************)
IsYmdToMjd(i) == calls[i].fn = "ymd_to_mjd"

TakesCivilFields(i) ==
    calls[i].fn \in {"utc_to_bjt_datetime", "bjt_to_utc_datetime",
                     "utc_to_gps_datetime", "ymd_to_doy_with_fraction"}

C17_OutOfRangeFieldsRaise ==
    \A i \in 1..Len(calls) :
        (TakesCivilFields(i) /\ ~WellFormedCivil(calls[i].arg))
        => Raised(calls[i].res)

(***************************************************************************)
(* C18.  time_of_day: for an hour in 0..23, a minute in 0..59 and a second *)
(* in [0, 60) it returns hour * 3600 + minute * 60 + second (as a double:  *)
(* the double nearest to it), which lies in [0, 86400); for an hour, a     *)
(* minute or a second outside those ranges, negative ones included, it     *)
(* raises ValueError.                                                      *)
(***************************************************************************)
IsTimeOfDay(i) == calls[i].fn = "time_of_day"

TimeFieldsInRange(c) ==
    /\ c.hour \in 0..23 /\ c.minute \in 0..59
    /\ DyLe(DyZero, c.second) /\ DyLt(c.second, DyOfInt(60))

C18_TimeOfDay ==
    \A i \in 1..Len(calls) :
        IsTimeOfDay(i) =>
            IF TimeFieldsInRange(calls[i].arg)
            THEN /\ calls[i].res = Return(Fl(SecondsOfDay(calls[i].arg)))
                 /\ DyLe(DyZero, ValueOf(calls[i].res))
                 /\ DyLt(ValueOf(calls[i].res), DyOfInt(SECONDS_PER_DAY))
            ELSE Raised(calls[i].res)

(***************************************************************************)
(* C19.  Leap-second lookup: for a table with at least one record and any  *)
(* query date, get_leap_second returns the offset of the last record, in   *)
(* file order, whose effective date is on or before the query date; when   *)
(* no record's effective date is on or before the query date it returns    *)
(* the first record's offset; a query on an effective date returns that    *)
(* record's offset.                                                        *)
(***************************************************************************)
IsGetLeapSecond(i) == calls[i].fn = "get_leap_second"

\* year, month and day are all given and name a calendar date
FieldsNameDate(a) ==
    /\ a.year # None /\ a.month # None /\ a.day # None
    /\ RefValidDate(a.year[1], a.month[1], a.day[1])

\* the call has a query date: a date object, or the date of the three fields
HasQueryDate(a) == a.date # None \/ FieldsNameDate(a)
QueryDateOf(a) ==
    IF a.date # None THEN a.date[1] ELSE <<a.year[1], a.month[1], a.day[1]>>

\* dates compared as the numbers yyyymmdd
DateNumber(d) == d[1] * 10000 + d[2] * 100 + d[3]

\* the places in the file of the records in effect on date q
InEffect(table, q) ==
    {k \in 1..Len(table) : DateNumber(table[k][1]) <= DateNumber(q)}

RefLeapSecond(table, q) ==
    IF InEffect(table, q) = {} THEN table[1][2]
    ELSE table[CHOOSE k \in InEffect(table, q) :
                  \A j \in InEffect(table, q) : j <= k][2]

C19_LeapSecondLookup ==
    \A i \in 1..Len(calls) :
        (IsGetLeapSecond(i) /\ leap_seconds # << >> /\ HasQueryDate(calls[i].arg))
        => calls[i].res =
              Return(RefLeapSecond(leap_seconds, QueryDateOf(calls[i].arg)))

\* reached: in a file that lists 2017-01-01 (18 s) before 1981-07-01 (1 s),
\* the query 2020-02-29 gets 1, the offset of the later line
C19_Witness ==
    /\ leap_seconds = << <<<<2017, 1, 1>>, 18>>, <<<<1981, 7, 1>>, 1>> >>
    /\ Len(calls) >= 1 /\ IsGetLeapSecond(1)
    /\ calls[1].arg.date = Some(<<2020, 2, 29>>)
    /\ calls[1].res = Return(1)

(***************************************************************************)
(* C20.  Leap-second lookup input checking: get_leap_second raises         *)
(* ValueError exactly when no date object is given and at least one of     *)
(* year, month, day is missing; a date object that is given is used, and   *)
(* year, month and day are then ignored; the table is unchanged after the  *)
(* error.                                                                  *)
(***************************************************************************)
FieldMissing(a) == a.year = None \/ a.month = None \/ a.day = None

\* a date object that is given is the query date, whatever the fields are
DateObjectUsed ==
    \A i \in 1..Len(calls) :
        (IsGetLeapSecond(i) /\ calls[i].arg.date # None)
        => /\ ~Raised(calls[i].res)
           /\ leap_seconds # << >> =>
                 calls[i].res =
                     Return(RefLeapSecond(leap_seconds, calls[i].arg.date[1]))

\* a lookup that raises leaves the table as it was
TableKeptOnError ==
    [][(calls' # calls /\ Raised(calls'[Len(calls')].res))
       => leap_seconds' = leap_seconds]_vars

\* C20 as stated: ValueError exactly for a missing field without date object
C20_ValueErrorOnlyWhenFieldMissing ==
    /\ [](\A i \in 1..Len(calls) :
             IsGetLeapSecond(i) =>
                (Raised(calls[i].res) <=>
                    (calls[i].arg.date = None /\ FieldMissing(calls[i].arg))))
    /\ [](DateObjectUsed)
    /\ TableKeptOnError

\* C20 as amended: ValueError exactly when there is no date object and the
\* fields are not all given or do not name a calendar date
C20_ValueErrorWithoutQueryDate ==
    /\ [](\A i \in 1..Len(calls) :
             IsGetLeapSecond(i) =>
                (Raised(calls[i].res) <=> ~HasQueryDate(calls[i].arg)))
    /\ [](DateObjectUsed)
    /\ TableKeptOnError

\* reached: the date object 1981-07-01 given along with the fields 2017-01-01
\* gets 1, not 18; this state and the next one are reached alike
C20_Witness ==
    /\ leap_seconds = << <<<<1981, 7, 1>>, 1>>, <<<<2017, 1, 1>>, 18>> >>
    /\ Len(calls) >= 1 /\ IsGetLeapSecond(1)
    /\ calls[1].arg = [year |-> Some(2017), month |-> Some(1),
                       day |-> Some(1), date |-> Some(<<1981, 7, 1>>)]
    /\ calls[1].res = Return(1)

(***************************************************************************)
(* C21.  The leap-second table is read-only after construction: no         *)
(* sequence of get_leap_second calls, successful or failing, changes the   *)
(* record list, and in any interleaving of lookups by several concurrent   *)
(* callers each caller gets the value its lookup returns when run alone.   *)
(***************************************************************************)
\* the lookup of caller k is over
LookupDone(k) == lookups[k].pc = "done"

\* what the lookup of caller k yields when it runs alone, from call to return
AloneResult(k) ==
    get_leap_second(leap_seconds, lookups[k].arg.year, lookups[k].arg.month,
                    lookups[k].arg.day, lookups[k].arg.date)

C21_TableReadOnly ==
    /\ [](\A k \in 1..Len(lookups) :
             LookupDone(k) => lookups[k].res = Some(AloneResult(k)))
    /\ [][leap_seconds' = leap_seconds]_vars

\* reached: two callers on the table 1981-07-01 (1 s), 2017-01-01 (18 s), the
\* first asking for 2020-02-29 and the second for 1999-01-01, the second
\* finished with 1 while the first is still in its loop
C21_Witness ==
    /\ leap_seconds = << <<<<1981, 7, 1>>, 1>>, <<<<2017, 1, 1>>, 18>> >>
    /\ Len(lookups) = 2
    /\ lookups[1].arg.date = Some(<<2020, 2, 29>>)
    /\ lookups[2].arg.date = Some(<<1999, 1, 1>>)
    /\ lookups[1].pc = "loop" /\ lookups[1].i = 2
    /\ LookupDone(2) /\ lookups[2].res = Some(Return(1))

(***************************************************************************)
(* C22.  Well-formed output: every civil date-time returned by mjd_to_ymd, *)
(* utc_to_bjt_datetime, bjt_to_utc_datetime, gps_to_utc_datetime or        *)
(* doy_to_ymd_with_fraction has its month in 1..12, its day in 1..the      *)
(* length of the month, its hour in 0..23, its minute in 0..59 and its     *)
(* second in [0, 60), for every input the function accepts without         *)
(* raising, a day of year of 0 or above the length of the year included.   *)
(***************************************************************************)
ReturnsCivil(i) ==
    /\ calls[i].fn \in {"mjd_to_ymd", "utc_to_bjt_datetime",
                        "bjt_to_utc_datetime", "gps_to_utc_datetime",
                        "doy_to_ymd_with_fraction"}
    /\ ~Raised(calls[i].res)

C22_WellFormedOutput ==
    \A i \in 1..Len(calls) :
        ReturnsCivil(i) => WellFormedCivil(ValueOf(calls[i].res))

(***************************************************************************)
(* C23.  CLI input mutual exclusion: convert performs a conversion only    *)
(* when exactly one of the seven input options is supplied.  With none it  *)
(* exits with code 1 and the message 'Please specify an input time'; with  *)
(* two or more it exits with code 1 and the message 'Cannot use multiple   *)
(* input options'; in both cases it prints no conversion output.           *)
(***************************************************************************)
IsConvert(i) == calls[i].fn = "convert"

\* the input options given on the command line, by name
SuppliedOptions(o) ==
    {n \in {"datetime_str", "year_doy", "mjd_input", "bjt_str",
            "gps_week_dow", "gps_week_tow"} : o[n] # None}
    \cup (IF o.now THEN {"now"} ELSE {})

\* a ClickException with that message and nothing printed on stdout
ExitsWithMessage(res, message) ==
    /\ res.exit = 1 /\ ~res.unhandled
    /\ res.message = message
    /\ res.out = None

C23_InputMutualExclusion ==
    \A i \in 1..Len(calls) :
        IsConvert(i) =>
            LET n == Cardinality(SuppliedOptions(calls[i].arg))
                res == calls[i].res
            IN  /\ n = 0 => ExitsWithMessage(res, "Please specify an input time")
                /\ n >= 2 =>
                     ExitsWithMessage(res, "Cannot use multiple input options")
                /\ res.out # None => n = 1

\* reached: --now together with --datetime "2017-01-01 00:00:00" is refused
C23_Witness ==
    /\ Len(calls) = 1 /\ IsConvert(1)
    /\ calls[1].arg.now
    /\ calls[1].arg.datetime_str = Some(DateTimeText(2017, 1, 1, 0, 0, 0))
    /\ SuppliedOptions(calls[1].arg) = {"now", "datetime_str"}
    /\ ExitsWithMessage(calls[1].res, "Cannot use multiple input options")

(***************************************************************************)
(* C24.  CLI missing leap-second file: whichever single input option is    *)
(* used, --gps-week-tow and --gps-week-dow included, when the leap-second  *)
(* file cannot be opened the command exits with code 1 and the message     *)
(* 'GPSUTC.BSW file not found', never with an unhandled exception, and     *)
(* prints no conversion output.                                            *)
(***************************************************************************)
\* the text reads as a date-time of the calendar
ReadsAsDateTime(text) ==
    /\ text.form = "datetime"
    /\ RefValidDate(text.year, text.month, text.day)
    /\ text.hour \in 0..23 /\ text.minute \in 0..59 /\ text.second \in 0..59

\* the text reads as YEAR,DOY with the day of year inside the year
ReadsAsYearDoy(text) ==
    /\ text.form = "pair"
    /\ DyLe(DyOfInt(1), text.b)
    /\ DyLt(text.b, DyOfInt(RefYearLength(text.a) + 1))

\* the text reads as WEEK,TOW with 0 <= TOW < 604800
ReadsAsWeekTow(text) ==
    /\ text.form = "pair"
    /\ text.a >= 0
    /\ DyLe(DyZero, text.b) /\ DyLt(text.b, DyOfInt(604800))

\* the text reads as WEEK,DOW with an integer DOW in 0..6
ReadsAsWeekDow(text) ==
    /\ text.form = "pair" /\ text.literal = "int"
    /\ text.a >= 0
    /\ DyLe(DyZero, text.b) /\ DyLt(text.b, DyOfInt(7))

\* exactly one input option is given and its value is a proper one
OneProperInput(o) ==
    /\ Cardinality(SuppliedOptions(o)) = 1
    /\ o.datetime_str # None => ReadsAsDateTime(o.datetime_str[1])
    /\ o.bjt_str # None => ReadsAsDateTime(o.bjt_str[1])
    /\ o.year_doy # None => ReadsAsYearDoy(o.year_doy[1])
    /\ o.gps_week_tow # None => ReadsAsWeekTow(o.gps_week_tow[1])
    /\ o.gps_week_dow # None => ReadsAsWeekDow(o.gps_week_dow[1])

C24_MissingLeapSecondFile ==
    \A i \in 1..Len(calls) :
        (IsConvert(i) /\ OneProperInput(calls[i].arg) /\ ~inp.file_found)
            => ExitsWithMessage(calls[i].res, "GPSUTC.BSW file not found")

(***************************************************************************)
(* C25.  CLI date beyond the table: when the UTC date the input resolves   *)
(* to is later than the date of the last record of the leap-second table,  *)
(* the command prints the warning 'Date is beyond leap second table, using *)
(* latest value', uses the offset of the last record for the GPS fields    *)
(* and exits with code 0 with all eight fields printed; otherwise it       *)
(* prints no such warning.                                                 *)
(***************************************************************************)
BeyondWarning ==
    "Warning: Date is beyond leap second table, using latest value"

\* the command got as far as a UTC calendar date, and that date is later
\* than the date of the last record of the table it read
ResolvedBeyondTable(res) ==
    /\ inp.file_found /\ leap_seconds # << >>
    /\ res.resolved # None
    /\ RefValidDate(res.resolved[1].year, res.resolved[1].month,
                    res.resolved[1].day)
    /\ DateNumber(<<res.resolved[1].year, res.resolved[1].month,
                    res.resolved[1].day>>)
         > DateNumber(leap_seconds[Len(leap_seconds)][1])

EightFields ==
    {"utc", "bjt", "mjd", "doy", "tod", "week", "dow", "tow"}

C25_DateBeyondTable ==
    \A i \in 1..Len(calls) :
        IsConvert(i) =>
            LET res == calls[i].res IN
            IF ResolvedBeyondTable(res)
            THEN /\ BeyondWarning \in res.warnings
                 /\ res.leap = Some(leap_seconds[Len(leap_seconds)][2])
                 /\ res.exit = 0 /\ ~res.unhandled
                 /\ res.out # None
                 /\ EightFields \subseteq DOMAIN res.out[1]
            ELSE BeyondWarning \notin res.warnings

\* reached: --datetime "2030-06-15 12:00:00" on a table whose last line is
\* the record of 2015-07-01 (17 s): the warning, and 17 s for the GPS fields
C25_Witness ==
    /\ Len(calls) = 1 /\ IsConvert(1)
    /\ calls[1].arg.datetime_str = Some(DateTimeText(2030, 6, 15, 12, 0, 0))
    /\ ResolvedBeyondTable(calls[1].res)
    /\ leap_seconds[Len(leap_seconds)] = <<<<2015, 7, 1>>, 17>>
    /\ BeyondWarning \in calls[1].res.warnings
    /\ calls[1].res.leap = Some(17)
    /\ calls[1].res.exit = 0

(***************************************************************************)
(* C28.  CLI GPS input is echoed: for --gps-week-tow W,T with              *)
(* 0 <= T < 604800, and for --gps-week-dow W,D with T = D * 86400, the     *)
(* two-pass resolution of the leap-second offset yields a UTC time whose   *)
(* own table offset reproduces the input, so the WEEK and TOW the command  *)
(* prints equal W and T, also near a leap-second effective date or UTC     *)
(* midnight.  The TOW is compared to within a thousandth of a second.      *)
(***************************************************************************)
\* the command line gives one proper GPS option
GivesGpsInput(o) ==
    /\ OneProperInput(o)
    /\ o.gps_week_tow # None \/ o.gps_week_dow # None

\* W and T of the command line
InputWeek(o) ==
    IF o.gps_week_tow # None THEN o.gps_week_tow[1].a ELSE o.gps_week_dow[1].a
InputTow(o) ==
    IF o.gps_week_tow # None THEN o.gps_week_tow[1].b
    ELSE DyMulInt(o.gps_week_dow[1].b, 86400)

C28_GpsInputEchoed ==
    \A i \in 1..Len(calls) :
        (/\ IsConvert(i) /\ GivesGpsInput(calls[i].arg)
         /\ inp.file_found /\ leap_seconds # << >>)
            => /\ calls[i].res.exit = 0
               /\ calls[i].res.out # None
               /\ calls[i].res.out[1].week = InputWeek(calls[i].arg)
               /\ WithinMilliSecond(calls[i].res.out[1].tow,
                                    InputTow(calls[i].arg))

(***************************************************************************)
(* C26.  utc_to_gps_datetime is order-preserving: for leap_seconds = 0 and *)
(* two valid UTC civil date-times c1 earlier than c2, dates before the GPS *)
(* epoch included, the results satisfy (week1, tow1) < (week2, tow2) in    *)
(* lexicographic order, with tow in [0, 604800) on both sides.             *)
(***************************************************************************)
\* c1 is an earlier instant than c2, on the calendar
Earlier(c1, c2) == DyLt(SecondsSinceMjd0(c1), SecondsSinceMjd0(c2))

\* calls i and j are utc_to_gps_datetime with leap_seconds = 0 on valid
\* date-times, the one of i earlier than the one of j
OrderedGpsCalls(i, j) ==
    /\ IsUtcToGps(i) /\ IsUtcToGps(j)
    /\ calls[i].leap = 0 /\ calls[j].leap = 0
    /\ WholeCivil(calls[i].arg) /\ WholeCivil(calls[j].arg)
    /\ Earlier(calls[i].arg, calls[j].arg)

TowInWeek(g) == DyLe(DyZero, g.tow) /\ DyLt(g.tow, DyOfInt(604800))

C26_GpsOrderPreserved ==
    \A i, j \in 1..Len(calls) :
        OrderedGpsCalls(i, j) =>
            /\ ~Raised(calls[i].res) /\ ~Raised(calls[j].res)
            /\ TowInWeek(ValueOf(calls[i].res))
            /\ TowInWeek(ValueOf(calls[j].res))
            /\ \/ ValueOf(calls[i].res).week < ValueOf(calls[j].res).week
               \/ /\ ValueOf(calls[i].res).week = ValueOf(calls[j].res).week
                  /\ DyLt(ValueOf(calls[i].res).tow, ValueOf(calls[j].res).tow)

(***************************************************************************)
(* C27.  ymd_to_mjd steps by exactly one per calendar day: for every valid *)
(* date D and its calendar successor D' (crossing month ends, 28 and 29    *)
(* February and year ends), ymd_to_mjd(D') - ymd_to_mjd(D) = 1 at equal    *)
(* time of day, so no two dates share an MJD and no integer MJD is         *)
(* skipped.  The difference is compared to within 1e-9 day.                *)
(***************************************************************************)
\* calls i and j are ymd_to_mjd on a valid date and on the day after it,
\* at the same time of day
SuccessiveDayCalls(i, j) ==
    /\ IsYmdToMjd(i) /\ IsYmdToMjd(j)
    /\ WholeCivil(calls[i].arg) /\ WholeCivil(calls[j].arg)
    /\ RefMjd(calls[j].arg.year, calls[j].arg.month, calls[j].arg.day)
         = RefMjd(calls[i].arg.year, calls[i].arg.month, calls[i].arg.day) + 1
    /\ SecondsOfDay(calls[i].arg) = SecondsOfDay(calls[j].arg)

C27_MjdStepsByOne ==
    \A i, j \in 1..Len(calls) :
        SuccessiveDayCalls(i, j) =>
            /\ ~Raised(calls[i].res) /\ ~Raised(calls[j].res)
            /\ WithinNanoDay(DySub(ValueOf(calls[j].res),
                                   ValueOf(calls[i].res)),
                             DyOfInt(1))

(***************************************************************************)
(* C30.  The three month-length sources agree: for every year and every    *)
(* month 1..12, the length used by _days_in_month (validation), the length *)
(* implied by day_of_year (its fixed table and the leap day added after    *)
(* February) and the leap-adjusted table walked by                         *)
(* doy_to_ymd_with_fraction are equal, so the forward and the inverse DOY  *)
(* conversion and the validator never disagree on the length of a month.   *)
(***************************************************************************)
\* the length of month m that day_of_year implies: the step of the day of
\* year from the first of m to the first of the month after; December,
\* which it never adds, by its table entry
ForwardLength(y, m) ==
    IF m < 12
    THEN ValueOf(day_of_year(y, m + 1, 1)) - ValueOf(day_of_year(y, m, 1))
    ELSE month_days[12]

\* the length of month m in the table that the walk of
\* doy_to_ymd_with_fraction uses: what is left of the day of year when the
\* loop comes to m stays in m up to that many days and no further;
\* December, which the walk never leaves, by its table entry
InverseLength(y, m) ==
    IF m < 12
    THEN CHOOSE n \in 1..31 :
            /\ WalkMonths(_is_leap_year(y), m, n) = [month |-> m, day |-> n]
            /\ WalkMonths(_is_leap_year(y), m, n + 1)
                 = [month |-> m + 1, day |-> 1]
    ELSE month_days[12]

\* the year and month call i is about: those it is given, or those it returns
MonthOfCall(i) ==
    IF IsDoyToYmd(i)
    THEN [year |-> calls[i].arg.year, month |-> ValueOf(calls[i].res).month]
    ELSE [year |-> calls[i].arg.year, month |-> calls[i].arg.month]

C30_MonthLengthsAgree ==
    \A i \in 1..Len(calls) :
        LET y == MonthOfCall(i).year
            m == MonthOfCall(i).month
        IN  m \in 1..12 =>
              /\ _days_in_month(y, m) = ForwardLength(y, m)
              /\ _days_in_month(y, m) = InverseLength(y, m)
              /\ (IsDayOfYear(i) /\ calls[i].arg.day >= 1) =>
                    (Raised(calls[i].res)
                        <=> calls[i].arg.day > InverseLength(y, m))
              /\ (i > 1 /\ IsDoyToYmd(i) /\ DoyThenBack(i - 1)) =>
                    ValueOf(calls[i].res).day \in 1..ForwardLength(y, m)

\* reached: day_of_year takes 2024-02-29 as day 60, the walk gives day 60 of
\* 2024 back as 29 February, and the three sources give February 29 days
C30_Witness ==
    /\ Len(calls) = 2 /\ IsDayOfYear(1) /\ IsDoyToYmd(2)
    /\ calls[1].arg.year = 2024 /\ calls[1].arg.month = 2
    /\ calls[1].arg.day = 29 /\ calls[1].res = Return(60)
    /\ calls[2].arg.doy_fraction = DyOfInt(60)
    /\ ValueOf(calls[2].res).month = 2 /\ ValueOf(calls[2].res).day = 29
    /\ _days_in_month(2024, 2) = 29
    /\ ForwardLength(2024, 2) = 29 /\ InverseLength(2024, 2) = 29

(***************************************************************************)
(* C29.  Lookup on any successfully constructed table is total: for every  *)
(* file that LeapSecondTable parses without error, a file holding only     *)
(* blank, header or separator lines or only lines with fewer than 7 fields *)
(* included, and every valid query date, get_leap_second returns the       *)
(* offset of some record of the table and never raises.                    *)
(***************************************************************************)
\* call i is a lookup with a valid query date on a table that call 1
\* constructed from its file without error
LookupOnParsedTable(i) ==
    /\ i > 1 /\ IsGetLeapSecond(i)
    /\ calls[1].fn = "LeapSecondTable" /\ ~Raised(calls[1].res)
    /\ HasQueryDate(calls[i].arg)

C29_LookupTotal ==
    \A i \in 1..Len(calls) :
        LookupOnParsedTable(i) =>
            /\ ~Raised(calls[i].res)
            /\ calls[i].res # RaiseIndexError
            /\ \E k \in 1..Len(leap_seconds) :
                  calls[i].res = Return(leap_seconds[k][2])

====
